---- MODULE Spec2Model ----
(***************************************************************************)
(* A model of the punybuf definition compiler (pbd): the parser's layer    *)
(* counter, the flattener, the validator and the layer resolver, run as a  *)
(* pipeline over bounded schema sources.                                   *)
(*                                                                         *)
(* Rust's Option<T> is modelled as a sequence of length 0 (None) or 1      *)
(* (Some(x)); HashMap<String, Option<String>> attributes are functions     *)
(* from the attribute name to such an option; strings that are parsed or   *)
(* hashed are sequences of ASCII codes.                                    *)
(***************************************************************************)
EXTENDS Integers, Sequences, FiniteSets, TLC

\* Bounds of the explored sources.
MaxLayer == 1
MaxDecls == 3
MaxVariants == 3
MaxFlags == 2
Spread == 2

None == << >>
Some(x) == << x >>
IsSome(o) == Len(o) = 1
Unwrap(o) == o[1]

NoAttrs == [k \in {} |-> None]
Attr(k, v) == [x \in {k} |-> v]
contains_key(attrs, k) == k \in DOMAIN attrs

Max(S) == CHOOSE x \in S : \A y \in S : y <= x
Min(S) == CHOOSE x \in S : \A y \in S : x <= y


(***************************************************************************)
(* CRC-32/CKSUM as computed by the crc crate for PB_CRC: width 32,         *)
(* polynomial 0x04C11DB7, initial value 0, no reflection, final xor        *)
(* 0xFFFFFFFF.  A u32 is the tuple of its four bytes, most significant     *)
(* first, since the values do not fit the model checker's integers.        *)
(***************************************************************************)
CrcPoly == << 4, 193, 29, 183 >>

\* bit k (a power of two) of the exclusive or of the bytes a and b, in place
XorBit(a, b, k) == k * (((a \div k) + (b \div k)) % 2)

\* the exclusive or of two bytes
Xor8(a, b) ==
  ((XorBit(a, b, 1) + XorBit(a, b, 2)) + (XorBit(a, b, 4) + XorBit(a, b, 8)))
    + ((XorBit(a, b, 16) + XorBit(a, b, 32)) + (XorBit(a, b, 64) + XorBit(a, b, 128)))

Xor32(v, w) == << Xor8(v[1], w[1]), Xor8(v[2], w[2]), Xor8(v[3], w[3]), Xor8(v[4], w[4]) >>

Shl32(v) == << (2 * v[1] + v[2] \div 128) % 256, (2 * v[2] + v[3] \div 128) % 256,
               (2 * v[3] + v[4] \div 128) % 256, (2 * v[4]) % 256 >>

CrcShift(crc) == IF crc[1] >= 128 THEN Xor32(Shl32(crc), CrcPoly) ELSE Shl32(crc)

\* n shift steps; an all-zero register stays zero.
RECURSIVE CrcShiftN(_, _)
CrcShiftN(crc, n) ==
  IF n = 0 \/ crc = << 0, 0, 0, 0 >> THEN crc ELSE CrcShiftN(CrcShift(crc), n - 1)

\* the lookup table of the byte-wise algorithm: entry b is the register after
\* byte b has been shifted through it; the entries of b .. b + n - 1
RECURSIVE CrcTableFrom(_, _)
CrcTableFrom(b, n) ==
  IF n = 1 THEN << CrcShiftN(<< b, 0, 0, 0 >>, 8) >>
  ELSE CrcTableFrom(b, n \div 2) \o CrcTableFrom(b + n \div 2, n - n \div 2)

CrcTable == CrcTableFrom(0, 256)

\* the register after one byte: it moves up by a byte and the table entry t
\* of the byte that left it is folded in
CrcStep(crc, t) == << Xor8(crc[2], t[1]), Xor8(crc[3], t[2]), Xor8(crc[4], t[3]), t[4] >>

CrcByte(crc, byte) == CrcStep(crc, CrcTable[Xor8(crc[1], byte) + 1])

Byte == 0..255

\* the register after the bytes have been fed to it, first byte first
CrcUpdate[crc \in Byte \X Byte \X Byte \X Byte, bytes \in Seq(Byte)] ==
  IF bytes = << >> THEN crc ELSE CrcUpdate[CrcByte(crc, Head(bytes)), Tail(bytes)]

PB_CRC(bytes) == Xor32(CrcUpdate[<< 0, 0, 0, 0 >>, bytes], << 255, 255, 255, 255 >>)

\* The ASCII bytes of the identifiers the sources use.
NameBytes(name) ==
  CASE name = "A" -> << 65 >>
    [] name = "B" -> << 66 >>
    [] name = "C" -> << 67 >>
    [] name = "D" -> << 68 >>
    [] name = "F" -> << 70 >>
    [] name = "G" -> << 71 >>
    [] name = "S" -> << 83 >>
    [] name = "T" -> << 84 >>
    [] name = "X" -> << 88 >>
    [] name = "Y" -> << 89 >>
    [] name = "Cmd" -> << 67, 109, 100 >>
    [] name = "Get" -> << 71, 101, 116 >>
    [] name = "Login" -> << 76, 111, 103, 105, 110 >>
    [] OTHER -> << 63 >>

\* Display of a u32 by format!("{}"): its decimal digits.
RECURSIVE DecimalBytes(_)
DecimalBytes(n) ==
  IF n < 10 THEN << 48 + n >>
  ELSE Append(DecimalBytes(n \div 10), 48 + (n % 10))

\* format!("{}.{}", name, layer).as_bytes()
CommandIdInput(name, layer) == NameBytes(name) \o << 46 >> \o DecimalBytes(layer)

command_id_of(name, layer) == PB_CRC(CommandIdInput(name, layer))


\* Iterator::map(..).collect() on a vector, or Option::map
MapSeq(F(_), s) == << >> \o [i \in 1..Len(s) |-> F(s[i])]

\* the concatenation of the first n vectors of ss
RECURSIVE ConcatAll(_, _)
ConcatAll(ss, n) == IF n = 0 THEN << >> ELSE ConcatAll(ss, n - 1) \o ss[n]

(***************************************************************************)
(* Source text, as the lexer hands it to the parser: bracket groups are    *)
(* already nested.  A reference is `Name`, `Name<...>` or an inline        *)
(* declaration `Name { ... }`, `Name [ ... ]`, `Name ( ... )`.             *)
(***************************************************************************)
SRef(name, generics) == [tk |-> "ref", name |-> name, generics |-> generics]
SName(name) == SRef(name, << >>)
SInline(name, body) == [tk |-> "inline", name |-> name, body |-> body]
SCurly(fields) == [br |-> "curly", items |-> fields]
SSquare(variants) == [br |-> "square", items |-> variants]
SParen(variants) == [br |-> "paren", items |-> variants]
SField(name, attrs, value, flags) ==
  [name |-> name, attrs |-> attrs, value |-> value, flags |-> flags]
SFlag(name, attrs, value) == [name |-> name, attrs |-> attrs, value |-> value]
SVariant(name, attrs, value) == [name |-> name, attrs |-> attrs, value |-> value]
SValueVariant(attrs, value) == [attrs |-> attrs, value |-> value]
\* `Name<generics> = body` and `Name: (argument) -> ret ! err`
STypeDecl(name, attrs, generic_args, body) ==
  [st |-> "type", name |-> name, attrs |-> attrs, generic_args |-> generic_args,
   body |-> body]
SCmdDecl(name, attrs, argument, ret, err) ==
  [st |-> "command", name |-> name, attrs |-> attrs, argument |-> argument,
   ret |-> ret, err |-> err]

(***************************************************************************)
(* Parser: every nested declaration and reference receives the layer that  *)
(* is active when its top-level declaration is parsed.                     *)
(***************************************************************************)
RECURSIVE parse_reference(_, _)
RECURSIVE parse_decl(_, _, _)
RECURSIVE parse_struct_decl(_, _)
RECURSIVE parse_enum_decl(_, _, _, _)
RECURSIVE parse_value_enum_decl(_, _, _, _)
RECURSIVE parse_flags(_, _)

parse_generics(tokens, layer) == MapSeq(LAMBDA r : parse_reference(r, layer), tokens)

parse_reference(src, layer) ==
  IF src.tk = "ref"
  THEN [is |-> "Reference", name |-> src.name,
        generics |-> parse_generics(src.generics, layer)]
  ELSE [is |-> "InlineDeclaration", symbol |-> src.name,
        decl |-> parse_decl(src.body, FALSE, layer)]

parse_decl(brackets, start_at_one, layer) ==
  CASE brackets.br = "curly" -> parse_struct_decl(brackets.items, layer)
    [] brackets.br = "square" ->
         parse_enum_decl(brackets.items, IF start_at_one THEN 1 ELSE 0, layer, << >>)
    [] brackets.br = "paren" ->
         parse_value_enum_decl(brackets.items, IF start_at_one THEN 1 ELSE 0, layer, << >>)

parse_flags(tokens, layer) ==
  MapSeq(LAMBDA f : [name |-> f.name, attrs |-> f.attrs,
                     value |-> MapSeq(LAMBDA r : parse_reference(r, layer), f.value)],
         tokens)

parse_struct_decl(tokens, layer) ==
  [is |-> "StructDeclaration", inline |-> FALSE, layer |-> layer,
   fields |-> MapSeq(LAMBDA f : [name |-> f.name, attrs |-> f.attrs,
                                 value |-> parse_reference(f.value, layer),
                                 flags |-> MapSeq(LAMBDA g : parse_flags(g, layer), f.flags)],
                     tokens)]

parse_enum_decl(tokens, counter, layer, variants) ==
  IF tokens = << >>
  THEN [is |-> "EnumDeclaration", inline |-> FALSE, layer |-> layer, variants |-> variants]
  ELSE parse_enum_decl(Tail(tokens), counter + 1, layer,
         Append(variants,
                [name |-> Head(tokens).name, discriminant |-> counter,
                 attrs |-> Head(tokens).attrs,
                 value |-> MapSeq(LAMBDA r : parse_reference(r, layer), Head(tokens).value)]))

parse_value_enum_decl(tokens, counter, layer, variants) ==
  IF tokens = << >>
  THEN [is |-> "ValueEnumDeclaration", inline |-> FALSE, layer |-> layer,
        variants |-> variants]
  ELSE parse_value_enum_decl(Tail(tokens), counter + 1, layer,
         Append(variants,
                [discriminant |-> counter, attrs |-> Head(tokens).attrs,
                 value |-> parse_reference(Head(tokens).value, layer)]))

\* The Symbol branch of Parser::parse: one top-level declaration.
parse_declaration(src, layer) ==
  IF src.st = "type"
  THEN IF "tk" \in DOMAIN src.body
       THEN [symbol |-> src.name, attrs |-> src.attrs,
             value |-> [is |-> "AliasDeclaration", generic_args |-> src.generic_args,
                        layer |-> layer, alias |-> parse_reference(src.body, layer)]]
       ELSE [symbol |-> src.name, attrs |-> src.attrs,
             value |-> [is |-> "Flexible", generic_args |-> src.generic_args,
                        val |-> parse_decl(src.body, FALSE, layer)]]
  ELSE [symbol |-> src.name, attrs |-> src.attrs,
        value |-> [is |-> "CommandDeclaration", layer |-> layer,
                   argument |->
                     IF src.argument = None THEN [is |-> "None"]
                     ELSE IF "tk" \in DOMAIN Unwrap(src.argument)
                     THEN [is |-> "Reference",
                           ref |-> parse_reference(Unwrap(src.argument), layer)]
                     ELSE [is |-> "Struct",
                           fields |-> parse_struct_decl(Unwrap(src.argument).items, layer).fields],
                   ret |-> parse_reference(src.ret, layer),
                   err |-> MapSeq(LAMBDA e : parse_decl(e, TRUE, layer), src.err)]]

(***************************************************************************)
(* Flattener.  A flattening step only ever pushes onto def.types, so each  *)
(* operator yields the types it pushes, in order, next to its value; the   *)
(* context_inline_owner of the PunybufDefinition is the parameter ctx.     *)
(***************************************************************************)
PBTypeRef(name, generics) ==
  [reference |-> name, generics |-> generics, resolved_layer |-> None,
   is_global |-> TRUE, is_highest_layer |-> FALSE]

ValueReference_get_name(refr) == IF refr.is = "Reference" THEN refr.name ELSE refr.symbol

\* a flattening step: the types it pushed and the value it returned
Flat(pushed, out) == [pushed |-> pushed, out |-> out]

\* the steps rs run one after the other: all their pushes, and their values
Pushed(rs) == ConcatAll(MapSeq(LAMBDA r : r.pushed, rs), Len(rs))
Outs(rs) == MapSeq(LAMBDA r : r.out, rs)
Collect(rs) == Flat(Pushed(rs), Outs(rs))

RECURSIVE flatten_reference(_, _)
RECURSIVE flatten_field(_, _)
RECURSIVE flatten_enum_variant(_, _)
RECURSIVE flatten_value_enum_variant(_, _)
RECURSIVE flatten_flexible_decl(_, _, _, _, _)

\* PBTypeRef of a plain reference whose generics have been flattened
flat_reference(name, generics) == Flat(Pushed(generics), PBTypeRef(name, Outs(generics)))

flatten_reference(ctx, refr) ==
  IF refr.is = "Reference"
  THEN flat_reference(refr.name,
                      MapSeq(LAMBDA r : flatten_reference(ctx, r), refr.generics))
  ELSE Flat(flatten_flexible_decl(ctx, refr.symbol, NoAttrs, refr.decl, << >>),
            PBTypeRef(refr.symbol, << >>))

\* PBFieldFlag of a flag whose Option of a value has been flattened
flat_flag(f, value) ==
  Flat(Pushed(value), [name |-> f.name, value |-> Outs(value), attrs |-> f.attrs])

flatten_flag(ctx, f) ==
  flat_flag(f, MapSeq(LAMBDA rf : flatten_reference(ctx, rf), f.value))

\* PBField: the flags are flattened before the value
flat_field(field, flags, value) ==
  Flat(Pushed(flags) \o value.pushed,
       [name |-> field.name, value |-> value.out, flags |-> Outs(flags),
        attrs |-> field.attrs])

flatten_field(ctx, field) ==
  flat_field(field,
             MapSeq(LAMBDA flags : Collect(MapSeq(LAMBDA f : flatten_flag(ctx, f), flags)),
                    field.flags),
             flatten_reference(ctx, field.value))

\* PBEnumVariant of a variant whose Option of a value has been flattened
flat_variant(name, variant, value) ==
  Flat(Pushed(value),
       [name |-> name, discriminant |-> variant.discriminant, value |-> Outs(value),
        attrs |-> variant.attrs])

flatten_enum_variant(ctx, ev) ==
  flat_variant(ev.name, ev, MapSeq(LAMBDA rf : flatten_reference(ctx, rf), ev.value))

flatten_value_enum_variant(ctx, vev) ==
  flat_variant(ValueReference_get_name(vev.value), vev,
               Some(flatten_reference(ctx, vev.value)))

\* the error list of a command, or the variants of an enum declaration
flatten_variants_of(ctx, decl) ==
  IF decl.is = "EnumDeclaration"
  THEN Collect(MapSeq(LAMBDA ev : flatten_enum_variant(ctx, ev), decl.variants))
  ELSE Collect(MapSeq(LAMBDA vev : flatten_value_enum_variant(ctx, vev), decl.variants))

\* self.types.push(PBTypeDef::Struct { .. }) after the pushes of the fields
push_struct(ctx, name, attrs, layer, generic_args, fields) ==
  Append(fields.pushed,
         [is |-> "Struct", name |-> name, layer |-> layer, attrs |-> attrs,
          generic_args |-> generic_args, fields |-> fields.out, inline_owner |-> ctx,
          is_highest_layer |-> FALSE])

\* self.types.push(PBTypeDef::Enum { .. }) after the pushes of the variants
push_enum(ctx, name, attrs, layer, generic_args, variants) ==
  Append(variants.pushed,
         [is |-> "Enum", name |-> name, layer |-> layer, attrs |-> attrs,
          generic_args |-> generic_args, variants |-> variants.out, inline_owner |-> ctx,
          is_highest_layer |-> FALSE])

\* the fields or variants are flattened with the declaration as the inline
\* owner in context; the declaration itself is owned by the context ctx.
\* The value is the vector of the types pushed.
flatten_flexible_decl(ctx, name, attrs, decl, generic_args) ==
  IF decl.is = "StructDeclaration"
  THEN push_struct(ctx, name, attrs, decl.layer, generic_args,
                   Collect(MapSeq(LAMBDA f : flatten_field(Some(name), f), decl.fields)))
  ELSE push_enum(ctx, name, attrs, decl.layer, generic_args,
                 flatten_variants_of(Some(name), decl))

\* PBCommandArg::Ref and PBCommandArg::Struct
arg_ref(refr) == Flat(refr.pushed, [is |-> "Ref", ref |-> refr.out])
arg_struct(fields) == Flat(fields.pushed, [is |-> "Struct", fields |-> fields.out])

\* the argument of a command
flatten_argument(argument) ==
  CASE argument.is = "None" -> Flat(<< >>, [is |-> "None"])
    [] argument.is = "Reference" -> arg_ref(flatten_reference(None, argument.ref))
    [] argument.is = "Struct" ->
         arg_struct(Collect(MapSeq(LAMBDA f : flatten_field(None, f), argument.fields)))

\* def.commands.push(PBCommandDef { .. }): the argument, the errors and the
\* return type have been flattened in this order
push_command(decl, argument, err, ret) ==
  [types |-> argument.pushed \o err.pushed \o ret.pushed,
   commands |-> << [name |-> decl.symbol, argument |-> argument.out,
                    attrs |-> decl.attrs, layer |-> decl.value.layer,
                    ret |-> ret.out, err |-> err.out,
                    command_id |-> command_id_of(decl.symbol, decl.value.layer),
                    is_highest_layer |-> FALSE] >>]

\* def.types.push(PBTypeDef::Alias { .. })
push_alias(decl, alias) ==
  [types |-> Append(alias.pushed,
                    [is |-> "Alias", name |-> decl.symbol, attrs |-> decl.attrs,
                     layer |-> decl.value.layer,
                     generic_args |-> decl.value.generic_args,
                     alias |-> alias.out, is_highest_layer |-> FALSE]),
   commands |-> << >>]

\* one iteration of the loop of flatten(): what the declaration pushes onto
\* def.types and def.commands
flatten_declaration(decl) ==
  CASE decl.value.is = "CommandDeclaration" ->
         push_command(decl, flatten_argument(decl.value.argument),
                      IF decl.value.err = None THEN Flat(<< >>, << >>)
                      ELSE flatten_variants_of(None, Unwrap(decl.value.err)),
                      flatten_reference(None, decl.value.ret))
    [] decl.value.is = "AliasDeclaration" ->
         push_alias(decl, flatten_reference(None, decl.value.alias))
    [] decl.value.is = "Flexible" ->
         [types |-> flatten_flexible_decl(None, decl.symbol, decl.attrs, decl.value.val,
                                          decl.value.generic_args),
          commands |-> << >>]

\* the definition after the iterations have run in order
definition_of(iterations) ==
  [types |-> ConcatAll(MapSeq(LAMBDA it : it.types, iterations), Len(iterations)),
   commands |-> ConcatAll(MapSeq(LAMBDA it : it.commands, iterations), Len(iterations))]

flatten(decls) == definition_of(MapSeq(flatten_declaration, decls))

get_name(tp) == tp.name
get_layer(tp) == tp.layer
get_attrs(tp) == tp.attrs
get_generics(tp) == tp.generic_args
get_inline_owner(tp) == IF tp.is = "Alias" THEN None ELSE tp.inline_owner

(***************************************************************************)
(* Validator.  A Result is Ok(value) or Err(message); `?` returns the      *)
(* first error.                                                            *)
(***************************************************************************)
Ok(v) == [ok |-> TRUE, val |-> v]
Err(e) == [ok |-> FALSE, err |-> e]

\* `r?` followed by K on the value; Match is a match on Ok and Err
AndThen(r, K(_)) == IF r.ok THEN K(r.val) ELSE r
Match(r, OnOk(_), OnErr(_)) == IF r.ok THEN OnOk(r.val) ELSE OnErr(r.err)

\* the result of the first iteration that fails, of those in `failing`
FirstErr(F(_), failing) == IF failing = {} THEN Ok("unit") ELSE F(Min(failing))

\* a loop whose iteration i is F(i): it runs 1..n in order and returns the
\* first Err
TryEach(F(_), n) == FirstErr(F, {i \in 1..n : ~F(i).ok})

\* the least index of a set of indices, or 0
FirstOf(found) == IF found = {} THEN 0 ELSE Min(found)

\* Iterator::find / position: the index of the first element satisfying P, or 0
position(P(_), s) == FirstOf({i \in 1..Len(s) : P(s[i])})

contains(s, x) == \E i \in 1..Len(s) : s[i] = x

TypeOwner(tp) ==
  [kind |-> "Type", name |-> tp.name, inline_owner |-> get_inline_owner(tp),
   attrs |-> tp.attrs]
CommandOwner(cmd) ==
  [kind |-> "Command", name |-> cmd.name, inline_owner |-> None, attrs |-> cmd.attrs]

\* str::trim followed by str::parse::<usize> on a string of ASCII codes
RECURSIVE trim_start(_)
trim_start(b) == IF b # << >> /\ Head(b) = 32 THEN trim_start(Tail(b)) ELSE b
RECURSIVE trim_end(_)
trim_end(b) ==
  IF b # << >> /\ b[Len(b)] = 32 THEN trim_end(SubSeq(b, 1, Len(b) - 1)) ELSE b
RECURSIVE parse_digits(_, _)
parse_digits(b, acc) ==
  IF b = << >> THEN Some(acc)
  ELSE IF Head(b) \in 48..57 THEN parse_digits(Tail(b), 10 * acc + (Head(b) - 48))
  ELSE None
parse_usize(b) ==
  LET t == trim_end(trim_start(b))
      d == IF t # << >> /\ Head(t) = 43 THEN Tail(t) ELSE t
  IN  IF d = << >> THEN None ELSE parse_digits(d, 0)

FlagsFollowLimit == 200

RECURSIVE validate_reference_void(_, _, _, _)
validate_reference_void(definition, refr, owner, generic_args) ==
  LET first == position(LAMBDA typ : get_name(typ) = refr.reference, definition.types)
  IN  IF contains(generic_args, refr.reference)
      THEN IF refr.generics # << >>
           THEN Err("cannot provide generic parameters to a generic argument")
           ELSE IF /\ first # 0
                   /\ definition.types[first].is # "Alias"
                   /\ definition.types[first].inline_owner = Some(owner.name)
           THEN Err("inline declaration conflicts with a generic argument")
           ELSE Ok([is |-> "GenericArgument"])
      ELSE IF first = 0 THEN Err("cannot find type in scope")
      ELSE LET decl == definition.types[first]
           IN  IF /\ decl.is # "Alias"
                  /\ decl.inline_owner # None
                  /\ Unwrap(decl.inline_owner) # owner.name
               THEN Err("type is inline and cannot be referenced outside its owner")
               ELSE IF Len(get_generics(decl)) > Len(refr.generics)
               THEN Err("too few generic arguments were provided")
               ELSE IF Len(get_generics(decl)) < Len(refr.generics)
               THEN Err("too many generic arguments were provided")
               ELSE AndThen(TryEach(LAMBDA i :
                                      validate_reference_void(definition, refr.generics[i],
                                                              owner, generic_args),
                                    Len(refr.generics)),
                            LAMBDA unit : Ok([is |-> "TopLevelDecl", decl |-> decl]))

validate_reference(definition, refr, owner, generic_args) ==
  IF refr.reference = "Void"
  THEN Err("the reserved type Void is only allowed in command returns")
  ELSE validate_reference_void(definition, refr, owner, generic_args)

\* Ok(n), or Err of a FlagsAttrError
RECURSIVE follow_to_flags_attr(_, _, _, _)
follow_to_flags_attr(definition, decl, owner, tries) ==
  IF tries >= FlagsFollowLimit
  THEN Err([is |-> "Other", error |-> "reached limit for @flags evaluation"])
  ELSE IF contains_key(decl.attrs, "@flags")
  THEN LET n == decl.attrs["@flags"]
       IN  IF IsSome(n) /\ IsSome(parse_usize(Unwrap(n)))
           THEN Ok(Unwrap(parse_usize(Unwrap(n))))
           ELSE Err([is |-> "Other",
                     error |-> "the @flags attribute doesnt put a limit on the flags"])
  ELSE IF decl.is # "Alias" \/ contains_key(decl.attrs, "@builtin")
  THEN Err([is |-> "NoAttribute", decl |-> decl.name])
  ELSE Match(validate_reference_void(definition, decl.alias, owner, decl.generic_args),
             LAMBDA def :
               IF def.is = "GenericArgument"
               THEN Err([is |-> "AliasGeneric", typedef |-> decl.name])
               ELSE follow_to_flags_attr(definition, def.decl, owner, tries + 1),
             LAMBDA pbe : Err([is |-> "Other", error |-> pbe]))

is_extension(x) == contains_key(x.attrs, "@extension")

\* iteration i of the loop of validate_flags: seen_names holds the names of
\* the flags before i, extension_begin the last `@extension` flag before i
validate_flag(definition, owner, generic_args, flags, i) ==
  IF flags[i].name \in {flags[j].name : j \in 1..(i - 1)} THEN Err("flag defined twice")
  ELSE IF contains_key(owner.attrs, "@sealed") /\ is_extension(flags[i])
  THEN Err("tried to extend a @sealed struct")
  ELSE IF ~is_extension(flags[i]) /\ (\E j \in 1..(i - 1) : is_extension(flags[j]))
  THEN Err("a regular flag cannot follow an @extension flag")
  ELSE IF flags[i].value = None THEN Ok("unit")
  ELSE validate_reference(definition, Unwrap(flags[i].value), owner, generic_args)

validate_flags(definition, owner, generic_args, flags) ==
  TryEach(LAMBDA i : validate_flag(definition, owner, generic_args, flags, i), Len(flags))

\* a variant that also refuses a flag group that fills the carrier exactly
too_many_flags_at_cap(flags, max_amount) == Len(flags) >= max_amount

\* flags.len() > max_amount
too_many_flags(flags, max_amount) == Len(flags) > max_amount

\* the flag branch of validate_struct for one field whose reference is valid
validate_flag_field(definition, owner, generic_args, field, field_ref_def) ==
  IF field_ref_def.is = "GenericArgument"
  THEN Err("flag fields types must be marked @flags, but it is a generic argument")
  ELSE Match(follow_to_flags_attr(definition, field_ref_def.decl, owner, 0),
             LAMBDA max_amount :
               IF too_many_flags(Unwrap(field.flags), max_amount)
               THEN Err("too many flags")
               ELSE validate_flags(definition, owner, generic_args, Unwrap(field.flags)),
             LAMBDA e :
               CASE e.is = "Other" -> Err(e.error)
                 [] e.is = "NoAttribute" -> Err("flag fields types must be marked @flags")
                 [] e.is = "AliasGeneric" ->
                      Err("flag fields types must be marked @flags, cannot verify"))

\* iteration i of the loop of validate_struct: seen_names holds the names of
\* the fields before i
validate_field(definition, owner, generic_args, fields, i) ==
  IF is_extension(fields[i])
  THEN Err("@extensions are only allowed to be defined on flags")
  ELSE IF fields[i].name \in {fields[j].name : j \in 1..(i - 1)}
  THEN Err("field defined twice")
  ELSE AndThen(validate_reference(definition, fields[i].value, owner, generic_args),
               LAMBDA field_ref_def :
                 IF fields[i].flags = None THEN Ok("unit")
                 ELSE validate_flag_field(definition, owner, generic_args, fields[i],
                                          field_ref_def))

validate_struct(definition, owner, generic_args, fields) ==
  TryEach(LAMBDA i : validate_field(definition, owner, generic_args, fields, i), Len(fields))

is_default(variant) == contains_key(variant.attrs, "@default")

\* a loop that never records the discriminant of an `@extension` variant
extension_discriminant_unset(variants, i) == None

\* extension_discriminant, the Option<u8> of the last `@extension` variant
\* among those at the indices `before`
last_extension(variants, before) ==
  IF before = {} THEN None ELSE Some(variants[Max(before)].discriminant)

extension_discriminant(variants, i) ==
  last_extension(variants, {j \in 1..(i - 1) : is_extension(variants[j])})

\* iteration i of the loop of validate_enum: seen_names holds the names of the
\* variants before i, default_variant_present tells of a `@default` up to i
validate_variant(definition, owner, generic_args, variants, i) ==
  IF variants[i].name \in {variants[j].name : j \in 1..(i - 1)}
  THEN Err("enum variant defined twice")
  ELSE IF is_default(variants[i]) /\ is_extension(variants[i])
  THEN Err("an enum variant cannot both be @default and an @extension")
  ELSE IF is_default(variants[i]) /\ variants[i].value # None
  THEN Err("a @default enum variant cannot have an associated type")
  ELSE IF is_extension(variants[i]) /\ ~(\E j \in 1..i : is_default(variants[j]))
  THEN Err("an @extension variant cannot be defined without a @default variant")
  ELSE IF /\ ~is_extension(variants[i])
          /\ extension_discriminant(variants, i) # None
          /\ Unwrap(extension_discriminant(variants, i)) < variants[i].discriminant
  THEN Err("a regular enum variant cannot follow an @extension one")
  ELSE IF variants[i].value = None THEN Ok("unit")
  ELSE validate_reference(definition, Unwrap(variants[i].value), owner, generic_args)

validate_enum(definition, owner, generic_args, variants) ==
  TryEach(LAMBDA i : validate_variant(definition, owner, generic_args, variants, i),
          Len(variants))

validate_generic_args(args) ==
  IF \E i, j \in 1..Len(args) : i < j /\ args[i] = args[j]
  THEN Err("generic argument defined twice") ELSE Ok("unit")

validate_type(definition, tp) ==
  AndThen(validate_generic_args(tp.generic_args),
          LAMBDA unit :
            IF contains_key(tp.attrs, "@builtin") THEN Ok("unit")
            ELSE AndThen(
                   CASE tp.is = "Alias" ->
                          validate_reference(definition, tp.alias, TypeOwner(tp),
                                             tp.generic_args)
                     [] tp.is = "Enum" ->
                          validate_enum(definition, TypeOwner(tp), tp.generic_args,
                                        tp.variants)
                     [] tp.is = "Struct" ->
                          validate_struct(definition, TypeOwner(tp), tp.generic_args,
                                          tp.fields),
                   LAMBDA done :
                     IF contains_key(tp.attrs, "@resolve") /\ tp.is # "Alias"
                     THEN Err("only aliases may be marked as @resolve")
                     ELSE Ok("unit")))

\* commands are validated with an empty context_generic_args
validate_command(definition, cmd) ==
  AndThen(CASE cmd.argument.is = "Struct" ->
                 validate_struct(definition, CommandOwner(cmd), << >>, cmd.argument.fields)
            [] cmd.argument.is = "Ref" ->
                 validate_reference(definition, cmd.argument.ref, CommandOwner(cmd), << >>)
            [] cmd.argument.is = "None" -> Ok("unit"),
          LAMBDA unit :
            AndThen(validate_reference_void(definition, cmd.ret, CommandOwner(cmd), << >>),
                    LAMBDA ret :
                      IF cmd.ret.reference = "Void" /\ Len(cmd.err) > 0
                      THEN Err("commands that return Void cannot respond with errors")
                      ELSE validate_enum(definition, CommandOwner(cmd), << >>, cmd.err)))

\* declared_things, the vector of (name, layer, kind) of the declarations seen
\* so far: when type i is looked at, and when command i is looked at
types_declared_before(definition, i) ==
  MapSeq(LAMBDA tp : << tp.name, tp.layer, "Type" >>, SubSeq(definition.types, 1, i - 1))

things_declared_before(definition, i) ==
  types_declared_before(definition, Len(definition.types) + 1)
    \o MapSeq(LAMBDA cmd : << cmd.name, cmd.layer, "Command" >>,
              SubSeq(definition.commands, 1, i - 1))

\* iteration i of the loop of validate() over the types
validate_type_at(definition, i) ==
  IF position(LAMBDA x : x[1] = definition.types[i].name
                           /\ x[2] = definition.types[i].layer,
              types_declared_before(definition, i)) # 0
  THEN Err("declared twice")
  ELSE IF /\ definition.types[i].name = "Void"
          /\ ~contains_key(definition.types[i].attrs, "@void")
  THEN Err("cannot declare a reserved type Void")
  ELSE IF definition.types[i].name # "Void"
  THEN validate_type(definition, definition.types[i])
  ELSE Ok("unit")

\* the declaration `already` found by the find() of the loop over the commands
redeclaration(cmd, already) ==
  IF already[2] = cmd.layer THEN Err("declared twice") ELSE Err("invalid redeclaration")

\* a find() that looks for a declaration of the same name and layer only
forbids_same_layer(x, cmd) == x[1] = cmd.name /\ x[2] = cmd.layer

\* the declaration of the same name that forbids the command: one at the
\* same layer, or one that is not a command
forbids(x, cmd) == x[1] = cmd.name /\ (x[2] = cmd.layer \/ x[3] # "Command")

\* the part of the iteration that follows the find() of a command
validate_new_command(definition, cmd, seen_ids) ==
  IF cmd.name = "Void" THEN Err("cannot declare a command with the reserved name Void")
  ELSE AndThen(validate_command(definition, cmd),
               LAMBDA unit :
                 IF cmd.command_id \in seen_ids
                 THEN Err("two commands produce the same crc32 checksum")
                 ELSE Ok("unit"))

\* iteration i of the loop of validate() over the commands, given the index
\* `already` of the declaration its find() yields, or 0
validate_command_found(definition, i, declared_things, already) ==
  IF already # 0 THEN redeclaration(definition.commands[i], declared_things[already])
  ELSE validate_new_command(definition, definition.commands[i],
         {definition.commands[j].command_id : j \in 1..(i - 1)})

validate_command_among(definition, i, declared_things) ==
  validate_command_found(definition, i, declared_things,
    position(LAMBDA x : forbids(x, definition.commands[i]), declared_things))

validate_command_at(definition, i) ==
  validate_command_among(definition, i, things_declared_before(definition, i))

validate(definition) ==
  AndThen(TryEach(LAMBDA i : validate_type_at(definition, i), Len(definition.types)),
          LAMBDA unit :
            TryEach(LAMBDA i : validate_command_at(definition, i),
                    Len(definition.commands)))

(***************************************************************************)
(* Layer resolver.  `dependencies` (HashMap<String, HashSet<Dependant>>)   *)
(* is the set of pairs << depended-on name, dependant >>.                  *)
(***************************************************************************)
Dependant(name, layer, kind) == [name |-> name, layer |-> layer, kind |-> kind]

\* stands for u32::MAX, which exceeds the integers of the model checker;
\* it is only ever used as a limit no layer reaches
u32_MAX == 2147483647

new_dependant_string(depends_on, dependant) ==
  IF depends_on = dependant.name THEN {} ELSE {<< depends_on, dependant >>}

\* a variant that does not look into the generic arguments
new_dependant_shallow(refr, dependant) ==
  IF ~refr.is_global THEN {}
  ELSE new_dependant_string(refr.reference, dependant)

RECURSIVE new_dependant(_, _)
new_dependant(refr, dependant) ==
  IF ~refr.is_global THEN {}
  ELSE new_dependant_string(refr.reference, dependant)
         \cup UNION {new_dependant(refr.generics[i], dependant) : i \in 1..Len(refr.generics)}

\* the references held by an Option<PBTypeRef>
option_dependant(value, dependant) ==
  UNION {new_dependant(value[i], dependant) : i \in 1..Len(value)}

analyze_struct_dependencies(fields, dependant) ==
  UNION {new_dependant(fields[i].value, dependant)
           \cup (IF fields[i].flags = None THEN {}
                 ELSE LET flags == Unwrap(fields[i].flags)
                      IN  UNION {option_dependant(flags[j].value, dependant) :
                                   j \in 1..Len(flags)})
         : i \in 1..Len(fields)}

analyze_enum_dependencies(variants, dependant) ==
  UNION {option_dependant(variants[i].value, dependant) : i \in 1..Len(variants)}

analyze_type_dependencies(tp) ==
  LET dep == Dependant(tp.name, tp.layer, "Type")
  IN  CASE tp.is = "Struct" -> analyze_struct_dependencies(tp.fields, dep)
        [] tp.is = "Enum" -> analyze_enum_dependencies(tp.variants, dep)
        [] tp.is = "Alias" -> new_dependant(tp.alias, dep)

analyze_command_dependencies(cmd) ==
  LET dep == Dependant(cmd.name, cmd.layer, "Command")
  IN  (IF cmd.ret.reference # "Void" THEN new_dependant(cmd.ret, dep) ELSE {})
        \cup (CASE cmd.argument.is = "Struct" ->
                     analyze_struct_dependencies(cmd.argument.fields, dep)
                [] cmd.argument.is = "Ref" -> new_dependant(cmd.argument.ref, dep)
                [] cmd.argument.is = "None" -> {})
        \cup analyze_enum_dependencies(cmd.err, dep)

\* a variant that forgets the limit: the last of all declarations named name
last_by_layer_unlimited(decls, name, limit_layer) ==
  LET possible == {i \in 1..Len(decls) : decls[i].name = name}
  IN  IF possible = {} THEN 0
      ELSE LET top == Max({decls[i].layer : i \in possible})
           IN  Max({i \in possible : decls[i].layer = top})

\* the last element of the stable sort by layer of the declarations of decls
\* that are named name and lie at a layer <= limit_layer; 0 if there is none
last_by_layer(decls, name, limit_layer) ==
  LET possible == {i \in 1..Len(decls) :
                     decls[i].layer <= limit_layer /\ decls[i].name = name}
  IN  IF possible = {} THEN 0
      ELSE LET top == Max({decls[i].layer : i \in possible})
           IN  Max({i \in possible : decls[i].layer = top})

\* Option<TypeOrCmdDef>
get_highest_layer(definition, name, limit_layer) ==
  LET c == last_by_layer(definition.commands, name, limit_layer)
      t == last_by_layer(definition.types, name, limit_layer)
  IN  IF c # 0 THEN Some([is |-> "CmdDef", def |-> definition.commands[c]])
      ELSE IF t # 0 THEN Some([is |-> "TypeDef", def |-> definition.types[t]])
      ELSE None

\* the bad-state panic of is_highest_layer
is_highest_layer_panics(definition, dependant, limit_layer) ==
  LET highest_layer == get_highest_layer(definition, dependant.name, limit_layer)
  IN  highest_layer # None /\ Unwrap(highest_layer).def.layer < dependant.layer

\* a variant that takes every dependant for the highest version of its name
is_highest_layer_always(definition, dependant, limit_layer) == TRUE

is_highest_layer(definition, dependant, limit_layer) ==
  LET highest_layer == get_highest_layer(definition, dependant.name, limit_layer)
  IN  IF highest_layer = None THEN TRUE
      ELSE Unwrap(highest_layer).def.layer = dependant.layer

\* Option<PBTypeDef>, Option<PBCommandDef>
get_type_from_dependant(definition, dependant) ==
  LET i == position(LAMBDA tp : tp.name = dependant.name /\ tp.layer = dependant.layer,
                    definition.types)
  IN  IF i = 0 THEN None ELSE Some(definition.types[i])

get_command_from_dependant(definition, dependant) ==
  LET i == position(LAMBDA cmd : cmd.name = dependant.name /\ cmd.layer = dependant.layer,
                    definition.commands)
  IN  IF i = 0 THEN None ELSE Some(definition.commands[i])

\* the copy of a dependant type that track_changes makes for a changed layer
bumped_type(tp, layer) == [tp EXCEPT !.layer = layer]

\* a variant that carries the command id of the cloned command over
bumped_command_stale_id(cmd, layer) == [cmd EXCEPT !.layer = layer]

\* the copy of a dependant command: the layer and the command id are rewritten
bumped_command(cmd, layer) ==
  [cmd EXCEPT !.layer = layer, !.command_id = command_id_of(cmd.name, layer)]

\* a variant that also regenerates the dependants at the changed layer itself
dependants_to_regenerate_same_layer(definition, dependencies, changed_type) ==
  {d \in {p[2] : p \in {q \in dependencies : q[1] = changed_type.name}} :
     /\ ~(d.layer > changed_type.layer)
     /\ \/ is_highest_layer_panics(definition, d, changed_type.layer)
        \/ is_highest_layer(definition, d, changed_type.layer)}

\* a variant without the comparison of the dependant's layer with the changed one
dependants_to_regenerate_any_layer(definition, dependencies, changed_type) ==
  {d \in {p[2] : p \in {q \in dependencies : q[1] = changed_type.name}} :
     \/ is_highest_layer_panics(definition, d, changed_type.layer)
     \/ is_highest_layer(definition, d, changed_type.layer)}

\* the dependants of the changed type that track_changes regenerates
dependants_to_regenerate(definition, dependencies, changed_type) ==
  {d \in {p[2] : p \in {q \in dependencies : q[1] = changed_type.name}} :
     /\ ~(d.layer >= changed_type.layer)
     /\ \/ is_highest_layer_panics(definition, d, changed_type.layer)
        \/ is_highest_layer(definition, d, changed_type.layer)}

\* every order in which a HashSet may yield the elements of S
Orderings(S) ==
  {s \in [1..Cardinality(S) -> S] : \A i, j \in 1..Cardinality(S) : s[i] = s[j] => i = j}

\* track_changes for the dependants in iteration order `order`; the result is
\* a panic or the new definition and dependency index
track_changes(definition, dependencies, index, order) ==
  LET changed_type == definition.types[index]
      todo == dependants_to_regenerate(definition, dependencies, changed_type)
      picked == SelectSeq(order, LAMBDA d : d \in todo)
      type_deps == SelectSeq(picked, LAMBDA d : d.kind = "Type")
      cmd_deps == SelectSeq(picked, LAMBDA d : d.kind = "Command")
      new_types == MapSeq(LAMBDA d :
                     bumped_type(Unwrap(get_type_from_dependant(definition, d)),
                                 changed_type.layer), type_deps)
      new_commands == MapSeq(LAMBDA d :
                     bumped_command(Unwrap(get_command_from_dependant(definition, d)),
                                    changed_type.layer), cmd_deps)
  IN  IF \/ \E d \in todo : is_highest_layer_panics(definition, d, changed_type.layer)
         \/ \E d \in todo : d.kind = "Type" /\ get_type_from_dependant(definition, d) = None
         \/ \E d \in todo : d.kind = "Command"
                              /\ get_command_from_dependant(definition, d) = None
      THEN [panic |-> TRUE, definition |-> definition, dependencies |-> dependencies]
      ELSE [panic |-> FALSE,
            definition |-> [types |-> definition.types \o new_types,
                            commands |-> definition.commands \o new_commands],
            dependencies |->
              dependencies
                \cup UNION {analyze_command_dependencies(new_commands[i]) :
                              i \in 1..Len(new_commands)}
                \cup UNION {analyze_type_dependencies(new_types[i]) :
                              i \in 1..Len(new_types)}]

RECURSIVE check_if_global_reference(_, _)
check_if_global_reference(refr, generics) ==
  [refr EXCEPT !.is_global = ~contains(generics, refr.reference),
               !.generics = MapSeq(LAMBDA g : check_if_global_reference(g, generics),
                                   refr.generics)]

\* the first loop of resolve(), for one type
check_if_global_type(tp) ==
  LET chk(r) == check_if_global_reference(r, tp.generic_args)
  IN  CASE tp.is = "Alias" -> [tp EXCEPT !.alias = chk(tp.alias)]
        [] tp.is = "Enum" ->
             [tp EXCEPT !.variants =
                MapSeq(LAMBDA var : [var EXCEPT !.value = MapSeq(chk, var.value)],
                       tp.variants)]
        [] tp.is = "Struct" ->
             [tp EXCEPT !.fields =
                MapSeq(LAMBDA fld :
                         [fld EXCEPT
                            !.value = chk(fld.value),
                            !.flags = MapSeq(LAMBDA flags :
                                        MapSeq(LAMBDA flag :
                                                 [flag EXCEPT !.value = MapSeq(chk, flag.value)],
                                               flags),
                                        fld.flags)],
                       tp.fields)]

ResolveTriesLimit == 100

\* Ok(reference), or Err for a panic (a missing generic parameter or an
\* index past the call site's generic arguments)
resolve_alias(refr, tp) ==
  LET result == tp.alias
      arg_index(name) == position(LAMBDA arg : arg = name, tp.generic_args)
      bad(name) == arg_index(name) = 0 \/ arg_index(name) > Len(refr.generics)
  IN  IF tp.is # "Alias" THEN Err("bad state: @resolve may only be used on aliases")
      ELSE IF ~result.is_global
      THEN IF bad(result.reference) THEN Err("bad state: cant find a generic argument")
           ELSE Ok(refr.generics[arg_index(result.reference)])
      ELSE IF \E i \in 1..Len(result.generics) :
                ~result.generics[i].is_global /\ bad(result.generics[i].reference)
      THEN Err("bad state: cant find a generic argument")
      ELSE Ok([result EXCEPT !.generics =
                 MapSeq(LAMBDA output_generic_param :
                          IF output_generic_param.is_global THEN output_generic_param
                          ELSE refr.generics[arg_index(output_generic_param.reference)],
                        result.generics)])

\* applies a ResolvedReference (never a panic) to a reference
RECURSIVE apply_resolution_to_reference(_, _)
RECURSIVE apply_resolution_to_generics(_, _)
apply_resolution_to_reference(refr, resolution) ==
  IF resolution.is = "Dealias" THEN resolution.dealias
  ELSE [refr EXCEPT
          !.resolved_layer = Some(resolution.resolved_layer),
          !.is_highest_layer = resolution.is_highest_layer,
          !.generics = apply_resolution_to_generics(refr.generics, resolution.generics)]

apply_resolution_to_generics(generics, resolved) ==
  IF generics = << >> THEN << >>
  ELSE << IF Head(resolved).is = "None" THEN Head(generics)
          ELSE apply_resolution_to_reference(Head(generics), Head(resolved)) >>
         \o apply_resolution_to_generics(Tail(generics), Tail(resolved))

\* ResolvedReference::Dealias around the alias body, itself resolved
dealiased(dealias, resolution) ==
  CASE resolution.is = "Panic" -> resolution
    [] resolution.is = "None" -> [is |-> "Dealias", dealias |-> dealias]
    [] OTHER -> [is |-> "Dealias",
                 dealias |-> apply_resolution_to_reference(dealias, resolution)]

\* a variant that resolves every reference to the highest layer of its name
resolved_at_highest(resolved_layer, highest_layer, generics) ==
  IF \E i \in 1..Len(generics) : generics[i].is = "Panic"
  THEN generics[CHOOSE i \in 1..Len(generics) : generics[i].is = "Panic"]
  ELSE [is |-> "Resolved", resolved_layer |-> highest_layer,
        is_highest_layer |-> TRUE, generics |-> generics]

\* ResolvedReference::Resolved, unless a generic argument panicked
resolved_at(resolved_layer, highest_layer, generics) ==
  IF \E i \in 1..Len(generics) : generics[i].is = "Panic"
  THEN generics[CHOOSE i \in 1..Len(generics) : generics[i].is = "Panic"]
  ELSE [is |-> "Resolved", resolved_layer |-> resolved_layer,
        is_highest_layer |-> highest_layer = resolved_layer, generics |-> generics]

\* Option<ResolvedReference> as a record tagged None, Resolved or Dealias; a
\* panic anywhere below yields the record tagged Panic
RECURSIVE resolve_reference(_, _, _, _, _)
RECURSIVE resolve_dealias(_, _, _, _, _)
RECURSIVE resolve_with_correct_layer(_, _, _, _, _, _)

\* the branch of resolve_reference for a reference to a @resolve alias;
\* dealias is the result of resolve_alias
resolve_dealias(should_resolve, definition, parent_layer, tries, dealias) ==
  IF ~dealias.ok THEN [is |-> "Panic", msg |-> dealias.err]
  ELSE dealiased(dealias.val,
                 resolve_reference(should_resolve, definition, dealias.val, parent_layer,
                                   tries + 1))

\* resolve_reference once with_correct_layer has been looked up
resolve_with_correct_layer(should_resolve, definition, refr, parent_layer, tries, with_correct_layer) ==
  IF with_correct_layer = None
  THEN [is |-> "Panic", msg |-> "cant find highest layer, reference not resolved"]
  ELSE IF /\ Unwrap(with_correct_layer).is = "TypeDef"
          /\ contains_key(Unwrap(with_correct_layer).def.attrs, "@resolve")
          /\ should_resolve
  THEN resolve_dealias(should_resolve, definition, parent_layer, tries,
                       resolve_alias(refr, Unwrap(with_correct_layer).def))
  ELSE resolved_at(Unwrap(with_correct_layer).def.layer,
                   Unwrap(get_highest_layer(definition, refr.reference, u32_MAX)).def.layer,
                   MapSeq(LAMBDA generic_refr :
                            resolve_reference(should_resolve, definition, generic_refr,
                                              parent_layer, tries + 1),
                          refr.generics))

resolve_reference(should_resolve, definition, refr, parent_layer, tries) ==
  IF tries > ResolveTriesLimit THEN [is |-> "Panic", msg |-> "circular reference"]
  ELSE IF ~refr.is_global \/ refr.reference = "Void" THEN [is |-> "None"]
  ELSE resolve_with_correct_layer(should_resolve, definition, refr, parent_layer, tries,
                                  get_highest_layer(definition, refr.reference, parent_layer))

\* the reference left in place of one whose resolution panicked
PanicRef == PBTypeRef("<panic>", << >>)

\* `if let Some(resolution) = .. { apply_resolution_to_reference(refr, resolution) }`
apply_resolution(refr, resolution) ==
  CASE resolution.is = "Panic" -> PanicRef
    [] resolution.is = "None" -> refr
    [] OTHER -> apply_resolution_to_reference(refr, resolution)

\* resolve_reference at tries = 0 followed by apply_resolution_to_reference
resolved_reference(should_resolve, definition, refr, layer) ==
  apply_resolution(refr, resolve_reference(should_resolve, definition, refr, layer, 0))

\* resolve_fields and apply_resolution_to_fields
resolve_fields(should_resolve, definition, fields, layer) ==
  LET res(r) == resolved_reference(should_resolve, definition, r, layer)
  IN  MapSeq(LAMBDA field :
               [field EXCEPT
                  !.value = res(field.value),
                  !.flags = MapSeq(LAMBDA flags :
                              MapSeq(LAMBDA flag : [flag EXCEPT !.value = MapSeq(res, flag.value)],
                                     flags),
                              field.flags)],
             fields)

\* the resolution of enum variants and apply_resolution_to_variants
resolve_variants(should_resolve, definition, variants, layer) ==
  LET res(r) == resolved_reference(should_resolve, definition, r, layer)
  IN  MapSeq(LAMBDA variant : [variant EXCEPT !.value = MapSeq(res, variant.value)],
             variants)

\* a variant that looks no higher than the declaration itself
resolve_is_highest_layer_limited(definition, name, parent_layer) ==
  Unwrap(get_highest_layer(definition, name, parent_layer)).def.layer = parent_layer

\* the declaration itself is in the definition, so the expect cannot fail
resolve_is_highest_layer(definition, name, parent_layer) ==
  Unwrap(get_highest_layer(definition, name, u32_MAX)).def.layer = parent_layer

resolve_type(should_resolve, definition, tp) ==
  LET hl == resolve_is_highest_layer(definition, tp.name, tp.layer)
  IN  CASE tp.is = "Alias" ->
             [tp EXCEPT !.is_highest_layer = hl,
                        !.alias = resolved_reference(should_resolve, definition, tp.alias,
                                                     tp.layer)]
        [] tp.is = "Struct" ->
             [tp EXCEPT !.is_highest_layer = hl,
                        !.fields = resolve_fields(should_resolve, definition, tp.fields,
                                                  tp.layer)]
        [] tp.is = "Enum" ->
             [tp EXCEPT !.is_highest_layer = hl,
                        !.variants = resolve_variants(should_resolve, definition, tp.variants,
                                                      tp.layer)]

resolve_command(should_resolve, definition, cmd) ==
  [cmd EXCEPT
     !.is_highest_layer = resolve_is_highest_layer(definition, cmd.name, cmd.layer),
     !.ret = resolved_reference(should_resolve, definition, cmd.ret, cmd.layer),
     !.err = resolve_variants(should_resolve, definition, cmd.err, cmd.layer),
     !.argument =
        CASE cmd.argument.is = "Ref" ->
               [is |-> "Ref",
                ref |-> resolved_reference(should_resolve, definition, cmd.argument.ref,
                                           cmd.layer)]
          [] cmd.argument.is = "None" -> cmd.argument
          [] cmd.argument.is = "Struct" ->
               [is |-> "Struct",
                fields |-> resolve_fields(should_resolve, definition, cmd.argument.fields,
                                          cmd.layer)]]

\* the commands are resolved against the definition with its types resolved
resolve_commands(should_resolve, updated) ==
  [updated EXCEPT !.commands =
     MapSeq(LAMBDA cmd : resolve_command(should_resolve, updated, cmd), updated.commands)]

\* the types are resolved against the definition as track_changes left it and
\* written back; the commands are then resolved against the updated types
resolve_references(should_resolve, definition) ==
  resolve_commands(should_resolve,
    [definition EXCEPT !.types =
       MapSeq(LAMBDA tp : resolve_type(should_resolve, definition, tp), definition.types)])

\* the references written directly in a struct body, a variant list, a
\* declaration (not those nested in generic arguments)
field_references(fields) ==
  UNION {{fields[i].value}
           \cup (IF fields[i].flags = None THEN {}
                 ELSE LET flags == Unwrap(fields[i].flags)
                      IN  UNION {{flags[j].value[k] : k \in 1..Len(flags[j].value)} :
                                   j \in 1..Len(flags)})
         : i \in 1..Len(fields)}

variant_references(variants) ==
  UNION {{variants[i].value[k] : k \in 1..Len(variants[i].value)} : i \in 1..Len(variants)}

type_references(tp) ==
  CASE tp.is = "Alias" -> {tp.alias}
    [] tp.is = "Struct" -> field_references(tp.fields)
    [] tp.is = "Enum" -> variant_references(tp.variants)

command_references(cmd) ==
  {cmd.ret} \cup variant_references(cmd.err)
    \cup (CASE cmd.argument.is = "Ref" -> {cmd.argument.ref}
            [] cmd.argument.is = "Struct" -> field_references(cmd.argument.fields)
            [] cmd.argument.is = "None" -> {})

\* some expect() or index of resolve_references panicked while `resolved` was
\* computed
references_panicked(resolved) ==
      \/ \E i \in 1..Len(resolved.types) : PanicRef \in type_references(resolved.types[i])
      \/ \E i \in 1..Len(resolved.commands) :
           PanicRef \in command_references(resolved.commands[i])

(***************************************************************************)
(* The explored sources.  Every source starts with the base declarations   *)
(* of its corpus (built-in types written as in the common schema) at layer *)
(* 0 and goes on with at most MaxDecls declarations of the corpus,         *)
(* interleaved with `layer N:` directives that raise the layer.            *)
(***************************************************************************)
SBuiltin(name) == STypeDecl(name, Attr("@builtin", None), << >>, SName(name))
SBuiltinGeneric(name) ==
  STypeDecl(name, Attr("@builtin", None), << "T" >>, SRef(name, << SName("T") >>))
SVoid == STypeDecl("Void", Attr("@void", None) @@ Attr("@builtin", None), << >>, SName("Void"))
SPlainField(name, value) == SField(name, NoAttrs, value, None)
SStruct(name, fields) == STypeDecl(name, NoAttrs, << >>, SCurly(fields))
SOptional(name) == SFlag(name, NoAttrs, None)

Corpora == {"layers", "alias", "inline", "flags", "unique"}

\* the enums of at most MaxVariants variants, each with or without `@default`,
\* with or without `@extension`, with or without a value: as the body of a
\* type and as the error list of a command
VariantNames == << "a", "b", "c", "d", "e", "f" >>
VariantKinds ==
  {[attrs |-> d @@ e, value |-> v] :
     d \in {NoAttrs, Attr("@default", None)},
     e \in {NoAttrs, Attr("@extension", None)},
     v \in {None, Some(SName("U8"))}}
EnumBodies ==
  UNION {{<< >> \o [i \in 1..n |-> SVariant(VariantNames[i], kinds[i].attrs, kinds[i].value)] :
            kinds \in [1..n -> VariantKinds]} :
         n \in 1..MaxVariants}
EnumLibrary ==
  {STypeDecl("E", NoAttrs, << >>, SSquare(body)) : body \in EnumBodies}
    \cup {SCmdDecl("Cmd", NoAttrs, None, SName("U8"), Some(SSquare(body))) :
             body \in EnumBodies}

Base(c) ==
  CASE c = "layers" -> << SBuiltin("U8"), SBuiltin("U16"), SBuiltinGeneric("Array") >>
    [] c = "alias" -> << SBuiltin("U32"), SBuiltinGeneric("Array") >>
    [] c = "inline" -> << SBuiltin("U8") >>
    [] c = "flags" -> << SBuiltin("U8") >>
    [] c = "unique" -> << SVoid >>
    [] c = "enums" -> << SBuiltin("U8") >>
    [] c = "void" -> << SVoid, SBuiltin("U8"), SBuiltinGeneric("Array") >>
    [] c = "generics" -> << SBuiltin("U32"), SBuiltinGeneric("Array") >>
    [] c = "hoist" -> << SBuiltin("U8") >>
    [] c = "closure" ->
         << SBuiltin("U8"), SBuiltinGeneric("Array"),
            SStruct("A", << SPlainField("n", SName("U8")) >>),
            SStruct("B", << SPlainField("a", SName("A")) >>),
            SStruct("D", << SPlainField("a", SName("A")), SPlainField("b", SName("B")) >>) >>

Library(c) ==
  CASE c = "layers" ->
         { SStruct("A", << SPlainField("n", SName("U8")) >>),
           SStruct("A", << SPlainField("n", SName("U16")) >>),
           SStruct("B", << SPlainField("a", SName("A")) >>),
           STypeDecl("C", NoAttrs, << >>,
                     SSquare(<< SVariant("some", NoAttrs, Some(SRef("Array", << SName("B") >>))),
                                SVariant("none", NoAttrs, None) >>)),
           SCmdDecl("Get", NoAttrs, Some(SName("A")), SRef("Array", << SName("A") >>), None) }
    [] c = "alias" ->
         { STypeDecl("Opaque", Attr("@resolve", None), << "T" >>, SName("T")),
           SStruct("C", << SPlainField("x", SRef("Opaque", << SName("U32") >>)) >>),
           STypeDecl("Al", Attr("@resolve", None), << "T" >>,
                     SRef("Array", << SRef("Array", << SName("T") >>) >>)),
           SStruct("D", << SPlainField("y", SRef("Al", << SName("U32") >>)) >>),
           SCmdDecl("Cmd", NoAttrs, Some(SRef("Opaque", << SName("U32") >>)),
                    SRef("Array", << SRef("Opaque", << SName("U32") >>) >>), None) }
    [] c = "inline" ->
         { SStruct("T", << SPlainField("a", SName("U8")) >>),
           SStruct("X", << SPlainField("f",
                             SInline("T", SCurly(<< SPlainField("b", SName("U8")) >>))) >>),
           SStruct("X", << SPlainField("g", SName("U8")) >>),
           SStruct("Y", << SPlainField("t", SName("T")) >>) }
    [] c = "flags" ->
         { STypeDecl("F", Attr("@flags", Some(<< 50 >>)), << >>, SName("U8")),
           STypeDecl("G", NoAttrs, << >>, SName("F")),
           SStruct("S", << SField("flags", NoAttrs, SName("F"),
                             Some(<< SOptional("a"), SOptional("b"), SOptional("c") >>)) >>),
           SStruct("S", << SField("flags", NoAttrs, SName("G"),
                             Some(<< SOptional("a"),
                                     SFlag("b", NoAttrs, Some(SName("U8"))) >>)) >>),
           SCmdDecl("Cmd", NoAttrs,
                    Some(SCurly(<< SField("flags", NoAttrs, SName("G"),
                                     Some(<< SOptional("a"), SOptional("b"),
                                             SOptional("c") >>)) >>)),
                    SName("U8"), None) }
    [] c = "unique" ->
         { SStruct("A", << >>),
           STypeDecl("A", NoAttrs, << >>, SSquare(<< SVariant("x", NoAttrs, None) >>)),
           SCmdDecl("A", NoAttrs, None, SName("Void"), None),
           SCmdDecl("B", NoAttrs, None, SName("Void"), None),
           SStruct("B", << SPlainField("a", SName("A")) >>) }
    [] c = "enums" -> EnumLibrary
    [] c = "void" ->
         { SStruct("S", << SPlainField("f", SName("Void")) >>),
           SStruct("S", << SPlainField("f", SRef("Array", << SName("Void") >>)) >>),
           SStruct("S", << SPlainField("f", SRef("Array", << SName("U8") >>)) >>),
           STypeDecl("Al", NoAttrs, << >>, SName("Void")),
           STypeDecl("E", NoAttrs, << >>,
                     SSquare(<< SVariant("v", NoAttrs, Some(SName("Void"))) >>)),
           SCmdDecl("Ping", NoAttrs, None, SName("Void"), None),
           SCmdDecl("Ping", NoAttrs, None, SName("Void"),
                    Some(SSquare(<< SVariant("failed", NoAttrs, None) >>))),
           SCmdDecl("Ping", NoAttrs, Some(SName("Void")), SName("U8"), None),
           SCmdDecl("Ping", NoAttrs, Some(SName("U8")),
                    SRef("Array", << SName("Void") >>), None) }
    [] c = "generics" ->
         { STypeDecl("Opaque", Attr("@resolve", None), << "T" >>, SName("T")),
           STypeDecl("Al", Attr("@resolve", None), << "T" >>,
                     SRef("Array", << SRef("Array", << SName("T") >>) >>)),
           STypeDecl("Box", NoAttrs, << "T" >>,
                     SCurly(<< SPlainField("v", SName("T")),
                               SPlainField("list", SRef("Array", << SName("T") >>)),
                               SPlainField("n", SName("U32")) >>)),
           STypeDecl("Pair", NoAttrs, << "T" >>,
                     SSquare(<< SVariant("some", NoAttrs,
                                         Some(SRef("Opaque", << SName("T") >>))),
                                SVariant("none", NoAttrs, None) >>)),
           SStruct("W", << SPlainField("b", SRef("Box", << SName("U32") >>)),
                           SPlainField("o", SRef("Opaque",
                                                 << SRef("Array", << SName("U32") >>) >>)) >>),
           SStruct("D", << SPlainField("y", SRef("Al", << SName("U32") >>)) >>),
           SCmdDecl("Cmd", NoAttrs, Some(SRef("Opaque", << SName("U32") >>)),
                    SRef("Box", << SName("U32") >>), None) }
    [] c = "hoist" ->
         { SStruct("X", << SPlainField("f",
                             SInline("T", SCurly(<< SPlainField("b",
                               SInline("N", SCurly(<< SPlainField("c", SName("U8")) >>))) >>))) >>),
           STypeDecl("E", NoAttrs, << >>,
                     SSquare(<< SVariant("v", NoAttrs,
                                  Some(SInline("V", SCurly(<< SPlainField("a", SName("U8")) >>)))) >>)),
           STypeDecl("VE", NoAttrs, << >>,
                     SParen(<< SValueVariant(NoAttrs,
                                 SInline("Item", SCurly(<< SPlainField("a", SName("U8")) >>))) >>)),
           SStruct("S", << SField("fl", NoAttrs, SName("U8"),
                             Some(<< SFlag("p", NoAttrs,
                                       Some(SInline("P", SCurly(<< SPlainField("a", SName("U8")) >>)))) >>)) >>),
           STypeDecl("Al", NoAttrs, << >>,
                     SInline("W", SCurly(<< SPlainField("a", SName("U8")) >>))),
           SCmdDecl("Cmd", NoAttrs,
                    Some(SInline("Arg", SCurly(<< SPlainField("a", SName("U8")) >>))),
                    SInline("Ret", SCurly(<< SPlainField("b", SName("U8")) >>)),
                    Some(SParen(<< SValueVariant(NoAttrs,
                                     SInline("Failed", SCurly(<< SPlainField("code", SName("U8")) >>))) >>))),
           SCmdDecl("Get", NoAttrs,
                    Some(SCurly(<< SPlainField("q",
                                     SInline("Q", SCurly(<< SPlainField("a", SName("U8")) >>))) >>)),
                    SName("U8"), None) }
    [] c = "closure" ->
         { SStruct("A", << SPlainField("n", SName("U8")), SPlainField("m", SName("U8")) >>),
           SStruct("A", << SPlainField("d", SName("D")) >>),
           SStruct("B", << SPlainField("n", SName("U8")) >>),
           SStruct("C", << SPlainField("d", SRef("Array", << SName("D") >>)) >>),
           SStruct("D", << SPlainField("a", SName("A")) >>),
           SCmdDecl("Get", NoAttrs, Some(SName("D")), SName("B"), None) }

\* how many declarations of the corpus a source has at most
DeclLimit(c) ==
  IF c = "enums" THEN 1 ELSE IF c \in {"void", "closure", "hoist"} THEN 2 ELSE MaxDecls


VARIABLES
  corpus,                 \* which corpus the source is written from
  pc,                     \* the stage of the pipeline in main()
  layer,                  \* Parser::parse: the active layer
  decls,                  \* Parser::parse: the declarations parsed so far
  definition,             \* the PunybufDefinition
  verdict,                \* the Result of PunybufDefinition::validate
  should_resolve_aliases, \* LayerResolver.should_resolve_aliases
  dependencies,           \* LayerResolver.dependencies
  index,                  \* the loop index of resolve()
  run,                    \* how many resolvers have been started on the definition
  resolved_once           \* the definition as the first resolver left it

\* the state of a program that uses the runtime library punybuf_common
VARIABLES
  use_tokio,              \* whether it uses punybuf_common::tokio
  subject,                \* what it serializes
  sink,                   \* the Vec<u8> it writes to and then reads from
  out,                    \* the Result of the last call that returned one
  wstep,                  \* how far it has got
  peers,                  \* the type as the writing and the reading side define it
  generated               \* the code rust_codegen generated for the two sides

\* tokens_from_file: reading a file and the files it includes
VARIABLES
  disk,                   \* the files that exist, and the file named on the command line
  handler,                \* the FileIncludeHandler
  lexers,                 \* the Lexers whose lex() is running, the innermost last
  stderr,                 \* the warnings printed
  trace,                  \* the files read and the include directives handled so far
  lexing                  \* what tokens_from_file returned

\* Parser: one of its loops over the tokens of a body
VARIABLES
  parsing                 \* the loop's tokens, its locals and what it returned

vars == << corpus, pc, layer, decls, definition, verdict, should_resolve_aliases,
           dependencies, index, run, resolved_once, use_tokio, subject, sink, out, wstep,
           peers, generated, disk, handler, lexers, stderr, trace, lexing, parsing >>

include_vars == << disk, handler, lexers, stderr, trace, lexing >>
IncludeIdle ==
  /\ disk = << >>
  /\ handler = << >>
  /\ lexers = << >>
  /\ stderr = << >>
  /\ trace = << >>
  /\ lexing = << >>

parse_vars == << parsing >>
ParseIdle == parsing = << >>

\* the state outside the schema pipeline, which the pipeline leaves alone
wire_vars == << use_tokio, subject, sink, out, wstep, peers, generated >>
outside_schema == << wire_vars, include_vars, parse_vars >>
OutsideIdle ==
  /\ use_tokio = FALSE
  /\ subject = None
  /\ sink = << >>
  /\ out = None
  /\ wstep = "idle"
  /\ peers = None
  /\ generated = None
  /\ IncludeIdle
  /\ ParseIdle

EmptyDefinition == [types |-> << >>, commands |-> << >>]

\* main() before the first token, on a source of one of the corpora cs
SchemaInit(cs) ==
  /\ corpus \in cs
  /\ pc = "parse"
  /\ layer = 0
  /\ decls = << >>
  /\ definition = EmptyDefinition
  /\ verdict = None
  /\ should_resolve_aliases = FALSE
  /\ dependencies = {}
  /\ index = 0
  /\ run = 0
  /\ resolved_once = None
  /\ OutsideIdle

Init == SchemaInit(Corpora)

\* the declarations the parser can meet next: the base declarations in their
\* order, then those of the corpus; none at the end of the source
Readable ==
  IF pc # "parse" \/ Len(decls) >= Len(Base(corpus)) + DeclLimit(corpus) THEN {}
  ELSE IF Len(decls) < Len(Base(corpus)) THEN {Base(corpus)[Len(decls) + 1]}
  ELSE Library(corpus)

\* Parser::parse, the `layer N:` branch
ParseLayer(n) ==
  /\ pc = "parse"
  /\ Len(decls) >= Len(Base(corpus))
  /\ Len(decls) < Len(Base(corpus)) + DeclLimit(corpus)
  /\ n # layer
  /\ n > layer \/ corpus = "closure"
  /\ layer' = n
  /\ UNCHANGED << corpus, pc, decls, definition, verdict, should_resolve_aliases,
                  dependencies, index, run, resolved_once >>
  /\ UNCHANGED outside_schema

\* Parser::parse, the Symbol branch: one declaration at the active layer
ParseDeclaration(src) ==
  /\ pc = "parse"
  /\ Len(decls) < Len(Base(corpus)) + DeclLimit(corpus)
  /\ IF Len(decls) < Len(Base(corpus))
     THEN src = Base(corpus)[Len(decls) + 1]
     ELSE src \in Library(corpus)
  /\ decls' = Append(decls, parse_declaration(src, layer))
  /\ UNCHANGED << corpus, pc, layer, definition, verdict, should_resolve_aliases,
                  dependencies, index, run, resolved_once >>
  /\ UNCHANGED outside_schema

\* Parser::parse reaches the end of the tokens; main() calls flatten
Flatten ==
  /\ pc = "parse"
  /\ Len(decls) >= Len(Base(corpus))
  /\ definition' = flatten(decls)
  /\ pc' = "validate"
  /\ UNCHANGED << corpus, layer, decls, verdict, should_resolve_aliases,
                  dependencies, index, run, resolved_once >>
  /\ UNCHANGED outside_schema

\* the Result of validate is kept; an Err ends main()
Validated(result) ==
  /\ verdict' = Some(result)
  /\ pc' = IF result.ok THEN "validated" ELSE "rejected"

\* main(): def.validate()
Validate ==
  /\ pc = "validate"
  /\ Validated(validate(definition))
  /\ UNCHANGED << corpus, layer, decls, definition, should_resolve_aliases,
                  dependencies, index, run, resolved_once >>
  /\ UNCHANGED outside_schema

\* LayerResolver::new, called by main() with the --no-resolve flag negated
NewResolver(resolve) ==
  /\ pc = "validated"
  /\ should_resolve_aliases' = resolve
  /\ dependencies' = {}
  /\ run' = 1
  /\ pc' = "resolve"
  /\ UNCHANGED << corpus, layer, decls, definition, verdict, index, resolved_once >>
  /\ UNCHANGED outside_schema

\* LayerResolver::resolve up to its while loop: generic flagging and the
\* dependency index
ResolveBegin ==
  /\ pc = "resolve"
  /\ LET flagged == [definition EXCEPT !.types = MapSeq(check_if_global_type, definition.types)]
     IN  /\ definition' = flagged
         /\ dependencies' =
              UNION {analyze_type_dependencies(flagged.types[i]) : i \in 1..Len(flagged.types)}
                \cup UNION {analyze_command_dependencies(flagged.commands[i]) :
                              i \in 1..Len(flagged.commands)}
  /\ index' = 0
  /\ pc' = "track"
  /\ UNCHANGED << corpus, layer, decls, verdict, should_resolve_aliases, run, resolved_once >>
  /\ UNCHANGED outside_schema

\* the effect of track_changes on the resolver and the definition
Tracked(r) ==
  IF r.panic
  THEN /\ pc' = "panic"
       /\ UNCHANGED << definition, dependencies, index >>
  ELSE /\ definition' = r.definition
       /\ dependencies' = r.dependencies
       /\ index' = index + 1
       /\ pc' = pc

\* one iteration of the while loop of resolve(): track_changes(definition, index)
TrackChanges ==
  /\ pc = "track"
  /\ index < Len(definition.types)
  /\ \E order \in Orderings(dependants_to_regenerate(definition, dependencies,
                                                      definition.types[index + 1])) :
       Tracked(track_changes(definition, dependencies, index + 1, order))
  /\ UNCHANGED << corpus, layer, decls, verdict, should_resolve_aliases, run, resolved_once >>
  /\ UNCHANGED outside_schema

\* resolve() returns with the references resolved, or a panic ends main()
Returned(resolved) ==
  IF references_panicked(resolved)
  THEN /\ pc' = "panic"
       /\ UNCHANGED definition
  ELSE /\ pc' = "done"
       /\ definition' = resolved

\* the loop ends; resolve_references
ResolveReferences ==
  /\ pc = "track"
  /\ index >= Len(definition.types)
  /\ Returned(resolve_references(should_resolve_aliases, definition))
  /\ UNCHANGED << corpus, layer, decls, verdict, should_resolve_aliases, dependencies,
                  index, run, resolved_once >>
  /\ UNCHANGED outside_schema

\* a fresh LayerResolver with the same setting is run on the resolved definition
ResolveAgain ==
  /\ pc = "done"
  /\ run = 1
  /\ resolved_once' = Some(definition)
  /\ run' = 2
  /\ dependencies' = {}
  /\ pc' = "resolve"
  /\ UNCHANGED << corpus, layer, decls, definition, verdict, should_resolve_aliases, index >>
  /\ UNCHANGED outside_schema

Next ==
  \/ \E n \in 0..MaxLayer : ParseLayer(n)
  \/ \E src \in Readable : ParseDeclaration(src)
  \/ Flatten
  \/ Validate
  \/ \E resolve \in BOOLEAN : NewResolver(resolve)
  \/ ResolveBegin
  \/ TrackChanges
  \/ ResolveReferences
  \/ ResolveAgain

Spec == Init /\ [][Next]_vars

\* the pipeline over the sources with one enum
EnumSpec == SchemaInit({"enums"}) /\ [][Next]_vars

\* the pipeline over the sources that write the reserved type Void
VoidSpec == SchemaInit({"void"}) /\ [][Next]_vars

\* the pipeline over the sources with generic declarations
GenericSpec == SchemaInit({"generics"}) /\ [][Next]_vars

\* the pipeline over the sources with structs and a command that depend on
\* each other, along several paths and in a cycle, their `layer N:`
\* directives in any order
ClosureSpec == SchemaInit({"closure"}) /\ [][Next]_vars

\* the pipeline over the sources with inline declarations in every position
HoistSpec == SchemaInit({"hoist"}) /\ [][Next]_vars

\* the control of the while loop of resolve(): a turn is taken while
\* index < definition.types.len(), and it ends with index += 1
LoopTurn == pc = "track" /\ index < Len(definition.types) /\ index' = index + 1

\* the while loop of resolve() runs on its own, in the one thread of main():
\* when it has a turn to take it takes it
ClosureFairSpec == ClosureSpec /\ WF_index(LoopTurn)

(***************************************************************************)
(* Vocabulary of the properties.                                           *)
(***************************************************************************)
\* a reference and the references nested in its generic arguments
RECURSIVE NestedReferences(_)
NestedReferences(refr) ==
  {refr} \cup UNION {NestedReferences(refr.generics[i]) : i \in 1..Len(refr.generics)}

\* every Reference of the definition with the declaration that owns it
OwnedReferences(def) ==
  UNION {{[ref |-> r, owner |-> def.types[i].name, layer |-> def.types[i].layer,
           kind |-> "Type"] :
            r \in UNION {NestedReferences(x) : x \in type_references(def.types[i])}} :
         i \in 1..Len(def.types)}
    \cup
  UNION {{[ref |-> r, owner |-> def.commands[i].name, layer |-> def.commands[i].layer,
           kind |-> "Command"] :
            r \in UNION {NestedReferences(x) : x \in command_references(def.commands[i])}} :
         i \in 1..Len(def.commands)}

\* the global references to something other than Void
LayeredReferences(def) ==
  {e \in OwnedReferences(def) : e.ref.is_global /\ e.ref.reference # "Void"}

\* the layers at which a declaration named name exists
DeclaredLayers(def, name) ==
  {def.types[i].layer : i \in {j \in 1..Len(def.types) : def.types[j].name = name}}
    \cup {def.commands[i].layer :
            i \in {j \in 1..Len(def.commands) : def.commands[j].name = name}}

Resolved == pc = "done"

\* C1: after resolve of a validated definition every global reference to
\* something other than Void has resolved_layer = Some(l), l the greatest layer
\* not above the owning declaration's at which the referenced name is declared
C1_ResolvedLayerIsGreatestBelowOwner ==
  Resolved =>
    \A e \in LayeredReferences(definition) :
      LET below == {l \in DeclaredLayers(definition, e.ref.reference) : l <= e.layer}
      IN  below # {} /\ e.ref.resolved_layer = Some(Max(below))

\* a layer-0 declaration that keeps referring to layer 0 of a name that was
\* redeclared at layer 1
C1_Witness ==
  /\ Resolved
  /\ \E e \in LayeredReferences(definition) :
       /\ e.layer = 0
       /\ e.ref.resolved_layer = Some(0)
       /\ 1 \in DeclaredLayers(definition, e.ref.reference)

\* C2: after resolve a type or command is flagged is_highest_layer exactly when
\* its layer is the maximum layer of the declarations of its name
C2_IsHighestLayerIffMaxLayer ==
  Resolved =>
    /\ \A i \in 1..Len(definition.types) :
         definition.types[i].is_highest_layer
           <=> definition.types[i].layer
                 = Max(DeclaredLayers(definition, definition.types[i].name))
    /\ \A i \in 1..Len(definition.commands) :
         definition.commands[i].is_highest_layer
           <=> definition.commands[i].layer
                 = Max(DeclaredLayers(definition, definition.commands[i].name))

\* a name with a flagged declaration and an unflagged one below it, one of them
\* a copy made by the layer closure
C2_Witness ==
  /\ Resolved
  /\ Len(definition.types) + Len(definition.commands) > Len(decls)
  /\ \E i, j \in 1..Len(definition.types) :
       /\ definition.types[i].name = definition.types[j].name
       /\ definition.types[i].is_highest_layer
       /\ ~definition.types[j].is_highest_layer
  /\ \E i, j \in 1..Len(definition.commands) :
       /\ definition.commands[i].name = definition.commands[j].name
       /\ definition.commands[i].is_highest_layer
       /\ ~definition.commands[j].is_highest_layer

\* C3: from flattening on, every command, the copies of the layer closure
\* included, has the CRC-32/CKSUM of "<name>.<layer>" as its command id
C3_CommandIdIsChecksumOfNameAndLayer ==
  \A i \in 1..Len(definition.commands) :
    definition.commands[i].command_id
      = PB_CRC(NameBytes(definition.commands[i].name) \o << 46 >>
                 \o DecimalBytes(definition.commands[i].layer))

\* the command Get copied to layer 1 by the layer closure, with the checksum
\* of "Get.1", 0x51ACA61A
C3_Witness ==
  /\ Resolved
  /\ \E i \in 1..Len(definition.commands) :
       /\ definition.commands[i].name = "Get"
       /\ definition.commands[i].layer = 1
       /\ definition.commands[i].command_id = << 81, 172, 166, 26 >>
       /\ \A k \in 1..Len(decls) : decls[k].symbol = "Get" => decls[k].value.layer = 0

\* the source of scenario S1: `A = { n: U8 }`, `layer 1:`, `A = { n: U16 }`,
\* `B = { a: A }`, after the built-in declarations
S1Decls ==
  MapSeq(LAMBDA src : parse_declaration(src, 0), Base("layers"))
    \o << parse_declaration(SStruct("A", << SPlainField("n", SName("U8")) >>), 0),
          parse_declaration(SStruct("A", << SPlainField("n", SName("U16")) >>), 1),
          parse_declaration(SStruct("B", << SPlainField("a", SName("A")) >>), 1) >>

S1 == corpus = "layers" /\ decls = S1Decls

\* the indices of the types named name, and those of them at layer l
TypesNamed(def, name) == {i \in 1..Len(def.types) : def.types[i].name = name}
TypesAt(def, name, l) == {i \in TypesNamed(def, name) : def.types[i].layer = l}

\* type i is a struct whose first field refers to `name` with this resolution
FirstFieldRefers(def, i, name, resolved_layer, highest) ==
  /\ def.types[i].is = "Struct"
  /\ Len(def.types[i].fields) >= 1
  /\ def.types[i].fields[1].value.reference = name
  /\ def.types[i].fields[1].value.resolved_layer = Some(resolved_layer)
  /\ def.types[i].fields[1].value.is_highest_layer = highest

\* C4 (as the resolver behaves): in scenario S1 the resolved definition holds A
\* at layers 0 and 1 and a single B, at layer 1, the layer it was written at;
\* its field refers to A with resolved_layer = 1 and is_highest_layer = true
C4_ScenarioS1SingleB ==
  (S1 /\ Resolved) =>
    /\ {definition.types[i].layer : i \in TypesNamed(definition, "A")} = {0, 1}
    /\ Cardinality(TypesNamed(definition, "B")) = 1
    /\ \A i \in TypesNamed(definition, "B") :
         /\ definition.types[i].layer = 1
         /\ FirstFieldRefers(definition, i, "A", 1, TRUE)

\* scenario S1 has been resolved
C4_Witness ==
  /\ S1
  /\ Resolved
  /\ TypesAt(definition, "B", 1) # {}

\* C4 as stated: in scenario S1 the resolved definition holds A at layers 0 and
\* 1 and two B declarations, one at layer 0 referring to A with resolved_layer
\* = 0 and is_highest_layer = false, one at layer 1 referring to A with
\* resolved_layer = 1 and is_highest_layer = true
C4_ScenarioS1TwoBs ==
  (S1 /\ Resolved) =>
    /\ {definition.types[i].layer : i \in TypesNamed(definition, "A")} = {0, 1}
    /\ Cardinality(TypesNamed(definition, "B")) = 2
    /\ \E i \in TypesAt(definition, "B", 0) : FirstFieldRefers(definition, i, "A", 0, FALSE)
    /\ \E i \in TypesAt(definition, "B", 1) : FirstFieldRefers(definition, i, "A", 1, TRUE)

\* C5 (as the resolver behaves): in a resolved definition every global
\* reference to something other than Void has a resolved_layer, which exceeds
\* neither the layer of the declaration that owns the reference nor the
\* maximum layer at which the referenced name is declared
C5_ResolvedLayerBelowOwnerAndMax ==
  Resolved =>
    \A e \in LayeredReferences(definition) :
      /\ IsSome(e.ref.resolved_layer)
      /\ Unwrap(e.ref.resolved_layer) <= e.layer
      /\ Unwrap(e.ref.resolved_layer) <= Max(DeclaredLayers(definition, e.ref.reference))

\* a declaration at layer 1 whose reference resolves to layer 0, the only
\* layer at which the referenced name is declared
C5_Witness ==
  /\ Resolved
  /\ \E e \in LayeredReferences(definition) :
       /\ e.layer = 1
       /\ e.ref.resolved_layer = Some(0)
       /\ DeclaredLayers(definition, e.ref.reference) = {0}

\* C5 as stated: in a resolved definition the layer of the declaration that
\* owns a global reference to something other than Void is at most the
\* maximum layer at which the referenced name is declared
C5_OwnerLayerBelowMaxLayer ==
  Resolved =>
    \A e \in LayeredReferences(definition) :
      e.layer <= Max(DeclaredLayers(definition, e.ref.reference))

\* C6: a fresh resolver run on a resolved definition, with either setting of
\* the de-aliasing mode, returns and leaves the definition as it was: no
\* declaration is appended and no field of a reference changes
C6_SecondResolveChangesNothing ==
  (run = 2 /\ pc \in {"done", "panic"}) =>
    /\ pc = "done"
    /\ definition = Unwrap(resolved_once)

\* the name of a reference and, recursively, of its generic arguments
RECURSIVE Shape(_)
Shape(refr) == [name |-> refr.reference, generics |-> MapSeq(Shape, refr.generics)]

\* the references written directly in a declaration, in a fixed order
FlagRefs(field) ==
  IF field.flags = None THEN << >>
  ELSE ConcatAll(MapSeq(LAMBDA flag : flag.value, Unwrap(field.flags)),
                 Len(Unwrap(field.flags)))
FieldRefs(fields) ==
  ConcatAll(MapSeq(LAMBDA field : << field.value >> \o FlagRefs(field), fields), Len(fields))
VariantRefs(variants) ==
  ConcatAll(MapSeq(LAMBDA variant : variant.value, variants), Len(variants))
TypeRefs(tp) ==
  CASE tp.is = "Alias" -> << tp.alias >>
    [] tp.is = "Struct" -> FieldRefs(tp.fields)
    [] tp.is = "Enum" -> VariantRefs(tp.variants)
CommandRefs(cmd) ==
  << cmd.ret >> \o VariantRefs(cmd.err)
    \o (CASE cmd.argument.is = "Ref" -> << cmd.argument.ref >>
          [] cmd.argument.is = "Struct" -> FieldRefs(cmd.argument.fields)
          [] cmd.argument.is = "None" -> << >>)

\* the indices of the `@resolve` aliases named name that a declaration at
\* layer l sees: those of the greatest layer not above l
AliasesSeen(def, name, l) ==
  {i \in TypesNamed(def, name) :
     /\ def.types[i].layer <= l
     /\ \A j \in TypesNamed(def, name) :
          def.types[j].layer <= l => def.types[j].layer <= def.types[i].layer
     /\ def.types[i].is = "Alias"
     /\ contains_key(def.types[i].attrs, "@resolve")}

\* the body of an alias with the call-site arguments in place of the generic
\* parameters, at any depth
RECURSIVE Substituted(_, _, _)
Substituted(body, params, args) ==
  IF \E k \in 1..Len(params) : params[k] = body.name
  THEN args[CHOOSE k \in 1..Len(params) : params[k] = body.name]
  ELSE [name |-> body.name,
        generics |-> MapSeq(LAMBDA g : Substituted(g, params, args), body.generics)]

\* a reference written at layer l with every `@resolve` alias substituted away
RECURSIVE Dealiased(_, _, _)
Dealiased(def, shape, l) ==
  IF AliasesSeen(def, shape.name, l) # {}
  THEN Dealiased(def,
                 Substituted(Shape(def.types[CHOOSE i \in AliasesSeen(def, shape.name, l) : TRUE].alias),
                             def.types[CHOOSE i \in AliasesSeen(def, shape.name, l) : TRUE].generic_args,
                             shape.generics),
                 l)
  ELSE [name |-> shape.name,
        generics |-> MapSeq(LAMBDA g : Dealiased(def, g, l), shape.generics)]

\* the references of the declarations as written and as resolve left them
WrittenShapes(refs) == MapSeq(Shape, refs)
DealiasedShapes(def, refs, l) == MapSeq(LAMBDA r : Dealiased(def, Shape(r), l), refs)

\* C7: with de-aliasing, after resolve no global reference names a type whose
\* declaration at the applicable layer carries @resolve, and every reference of
\* a declaration is what was written with the alias bodies substituted for the
\* aliases, the call-site arguments in place of the parameters; without
\* de-aliasing the names of the references are what was written
C7_AliasesSubstitutedAway ==
  Resolved =>
    IF should_resolve_aliases
    THEN /\ \A e \in LayeredReferences(definition) :
              AliasesSeen(definition, e.ref.reference, e.layer) = {}
         /\ \A i \in 1..Len(flatten(decls).types) :
              WrittenShapes(TypeRefs(definition.types[i]))
                = DealiasedShapes(flatten(decls), TypeRefs(flatten(decls).types[i]),
                                  definition.types[i].layer)
         /\ \A i \in 1..Len(flatten(decls).commands) :
              WrittenShapes(CommandRefs(definition.commands[i]))
                = DealiasedShapes(flatten(decls), CommandRefs(flatten(decls).commands[i]),
                                  definition.commands[i].layer)
    ELSE /\ \A i \in 1..Len(flatten(decls).types) :
              WrittenShapes(TypeRefs(definition.types[i]))
                = WrittenShapes(TypeRefs(flatten(decls).types[i]))
         /\ \A i \in 1..Len(flatten(decls).commands) :
              WrittenShapes(CommandRefs(definition.commands[i]))
                = WrittenShapes(CommandRefs(flatten(decls).commands[i]))

\* the inline declarations of the name of e that a reference written at
\* layer l stands for: those of the greatest layer not above l
InlineTargets(def, name, l) ==
  {i \in TypesNamed(def, name) :
     /\ def.types[i].layer <= l
     /\ \A j \in TypesNamed(def, name) :
          def.types[j].layer <= l => def.types[j].layer <= def.types[i].layer
     /\ get_inline_owner(def.types[i]) # None}

\* C8: in a definition the validator accepted, at every layer, a reference
\* that names a type T and stands for a declaration of T with inline_owner =
\* Some(X) occurs inside a declaration named X, also when T is declared as a
\* top-level type at another layer; after resolve the same holds of the
\* declaration that resolved_layer selects
C8_InlineReferencedOnlyInsideOwner ==
  /\ pc = "validated" =>
       \A e \in LayeredReferences(definition) :
         \A i \in InlineTargets(definition, e.ref.reference, e.layer) :
           definition.types[i].inline_owner = Some(e.owner)
  /\ Resolved =>
       \A e \in LayeredReferences(definition) :
         \A i \in TypesNamed(definition, e.ref.reference) :
           (/\ e.ref.resolved_layer = Some(definition.types[i].layer)
            /\ get_inline_owner(definition.types[i]) # None)
             => definition.types[i].inline_owner = Some(e.owner)

\* two declarations of one kind with the same name and layer, or a name
\* declared as a type and as a command
DeclaredTwice(def) ==
  \/ \E i, j \in 1..Len(def.types) :
       i < j /\ def.types[i].name = def.types[j].name /\ def.types[i].layer = def.types[j].layer
  \/ \E i, j \in 1..Len(def.commands) :
       /\ i < j
       /\ def.commands[i].name = def.commands[j].name
       /\ def.commands[i].layer = def.commands[j].layer
CrossKind(def) ==
  \E i \in 1..Len(def.types) : \E j \in 1..Len(def.commands) :
    def.types[i].name = def.commands[j].name

\* C9: validate returns an error for every definition in which two types or
\* two commands share a name and layer, or in which a name is declared as a
\* type and as a command at any layers, whatever the order of the declarations
C9_RedeclarationsRejected ==
  (pc \in {"validated", "rejected"} /\ (DeclaredTwice(definition) \/ CrossKind(definition)))
    => ~Unwrap(verdict).ok

\* a command, then a type of its name at a higher layer, rejected as a redeclaration
C9_Witness ==
  /\ pc = "rejected"
  /\ Unwrap(verdict).err = "invalid redeclaration"
  /\ ~DeclaredTwice(definition)
  /\ \E i, j \in 1..Len(decls) :
       /\ i < j
       /\ decls[i].symbol = "B" /\ decls[i].value.is = "CommandDeclaration"
       /\ decls[j].symbol = "B" /\ decls[j].value.is = "Flexible"
       /\ decls[j].value.val.layer = 1

\* the struct fields of the definition that carry a flag group: those of the
\* struct types and those of the struct arguments of the commands
FlagGroups(def) ==
  UNION {{def.types[i].fields[k] : k \in 1..Len(def.types[i].fields)} :
           i \in {j \in 1..Len(def.types) : def.types[j].is = "Struct"}}
    \cup
  UNION {{def.commands[i].argument.fields[k] : k \in 1..Len(def.commands[i].argument.fields)} :
           i \in {j \in 1..Len(def.commands) : def.commands[j].argument.is = "Struct"}}

\* the N of the `@flags(N)` found from the type named name through aliases,
\* as an Option
RECURSIVE FlagCap(_, _)
FlagCap(def, name) ==
  IF TypesNamed(def, name) = {} THEN None
  ELSE LET tp == def.types[Min(TypesNamed(def, name))]
       IN  IF contains_key(tp.attrs, "@flags")
           THEN IF IsSome(tp.attrs["@flags"]) THEN parse_usize(Unwrap(tp.attrs["@flags"]))
                ELSE None
           ELSE IF tp.is = "Alias" /\ ~contains_key(tp.attrs, "@builtin")
           THEN FlagCap(def, tp.alias.reference)
           ELSE None

\* the flag groups with more flags than their carrier allows
OverCap(def) ==
  {field \in FlagGroups(def) :
     /\ field.flags # None
     /\ IsSome(FlagCap(def, field.value.reference))
     /\ Len(Unwrap(field.flags)) > Unwrap(FlagCap(def, field.value.reference))}

EnumLists(def) ==
  {def.types[i].variants : i \in {j \in 1..Len(def.types) : def.types[j].is = "Enum"}}
    \cup {def.commands[i].err : i \in 1..Len(def.commands)}

Accepted == IsSome(verdict) /\ Unwrap(verdict).ok

\* C11: the validator rejects every enum and every command error list with
\* more than one `@default` variant
C11_AtMostOneDefault ==
  pc \in {"validated", "rejected"} =>
    ((\E variants \in EnumLists(definition) :
        \E i, j \in 1..Len(variants) :
          i < j /\ is_default(variants[i]) /\ is_default(variants[j]))
       => ~Unwrap(verdict).ok)

VoidFree(refr) == \A r \in NestedReferences(refr) : r.reference # "Void"

\* C13: in an accepted definition a reference named Void occurs only as the
\* return reference of a command, never as a field, flag or variant value, an
\* alias target or a command argument, nor in a generic argument of any of
\* these or of a return reference (`@builtin` and `@void` types excepted); and
\* a command that returns Void has no error variants
C13_VoidOnlyAsCommandReturn ==
  Accepted =>
    /\ \A i \in 1..Len(definition.types) :
         (~contains_key(definition.types[i].attrs, "@builtin")
            /\ ~contains_key(definition.types[i].attrs, "@void"))
           => \A k \in 1..Len(TypeRefs(definition.types[i])) :
                VoidFree(TypeRefs(definition.types[i])[k])
    /\ \A i \in 1..Len(definition.commands) :
         /\ \A k \in 2..Len(CommandRefs(definition.commands[i])) :
              VoidFree(CommandRefs(definition.commands[i])[k])
         /\ \A k \in 1..Len(definition.commands[i].ret.generics) :
              VoidFree(definition.commands[i].ret.generics[k])
         /\ definition.commands[i].ret.reference = "Void"
              => definition.commands[i].err = << >>

\* the references of a sequence of references, with their generic arguments
AllNested(refs) == UNION {NestedReferences(refs[k]) : k \in 1..Len(refs)}

\* C14: after resolve, with or without de-aliasing, a reference inside a type
\* declaration, nested or substituted ones included, has is_global = FALSE
\* exactly when its name is a generic parameter of the declaration, and every
\* reference inside a command has is_global = TRUE
C14_IsGlobalIffNotGenericParameter ==
  Resolved =>
    /\ \A i \in 1..Len(definition.types) :
         \A r \in AllNested(TypeRefs(definition.types[i])) :
           ~r.is_global <=> contains(definition.types[i].generic_args, r.reference)
    /\ \A i \in 1..Len(definition.commands) :
         \A r \in AllNested(CommandRefs(definition.commands[i])) : r.is_global

(***************************************************************************)
(* The runtime library punybuf_common.  A u64 is the tuple of its 8 bytes, *)
(* most significant first (to_be_bytes); a Vec<u8> and what a reader still  *)
(* holds are sequences of bytes.                                           *)
(***************************************************************************)
U64 == [1..8 -> Byte]

\* the carry out of byte i of a + b, and the borrow out of byte i of a - b
RECURSIVE AddCarry(_, _, _)
AddCarry(a, b, i) ==
  IF i > 8 THEN 0 ELSE (a[i] + b[i] + AddCarry(a, b, i + 1)) \div 256
RECURSIVE SubBorrow(_, _, _)
SubBorrow(a, b, i) ==
  IF i > 8 THEN 0
  ELSE IF a[i] - b[i] - SubBorrow(a, b, i + 1) < 0 THEN 1 ELSE 0

\* u64 `+` and `-` without the overflow check, and the overflow of `+`
wrapping_add(a, b) == << >> \o [i \in 1..8 |-> (a[i] + b[i] + AddCarry(a, b, i + 1)) % 256]
wrapping_sub(a, b) == << >> \o [i \in 1..8 |-> (a[i] - b[i] - SubBorrow(a, b, i + 1) + 256) % 256]
add_overflows(a, b) == AddCarry(a, b, 1) = 1

\* u64 `<`
U64Lt(a, b) == \E i \in 1..8 : a[i] < b[i] /\ \A j \in 1..(i - 1) : a[j] = b[j]

\* u64::from(u8), and a u64 literal from its decimal digits
U64FromByte(b) == << >> \o [i \in 1..8 |-> IF i = 8 THEN b ELSE 0]
RECURSIVE MulCarry(_, _, _)
MulCarry(a, k, i) == IF i > 8 THEN 0 ELSE (a[i] * k + MulCarry(a, k, i + 1)) \div 256
TimesSmall(a, k) == << >> \o [i \in 1..8 |-> (a[i] * k + MulCarry(a, k, i + 1)) % 256]
\* one more decimal digit d after the digits of x
AppendDigit[x \in U64, d \in 0..9] == wrapping_add(TimesSmall(x, 10), U64FromByte(d))
RECURSIVE Literal(_)
Literal(digits) ==
  IF digits = << >> THEN U64FromByte(0)
  ELSE AppendDigit[Literal(SubSeq(digits, 1, Len(digits) - 1)), digits[Len(digits)]]

\* u64::from_be_bytes and u64::from_le_bytes of an array of 8 bytes
from_be_bytes(bytes) == << >> \o [i \in 1..8 |-> bytes[i]]
\* a conversion that takes the little-endian array as big-endian
from_le_bytes_unreversed(bytes) == << >> \o [i \in 1..8 |-> bytes[i]]
from_le_bytes(bytes) == << >> \o [i \in 1..8 |-> bytes[9 - i]]

\* `|`, `&` and `>>` on a u8
OrBit(a, b, k) == k * Max({(a \div k) % 2, (b \div k) % 2})
AndBit(a, b, k) == k * (((a \div k) % 2) * ((b \div k) % 2))
Or8(a, b) ==
  (OrBit(a, b, 1) + OrBit(a, b, 2) + OrBit(a, b, 4) + OrBit(a, b, 8))
    + (OrBit(a, b, 16) + OrBit(a, b, 32) + OrBit(a, b, 64) + OrBit(a, b, 128))
And8(a, b) ==
  (AndBit(a, b, 1) + AndBit(a, b, 2) + AndBit(a, b, 4) + AndBit(a, b, 8))
    + (AndBit(a, b, 16) + AndBit(a, b, 32) + AndBit(a, b, 64) + AndBit(a, b, 128))
Shr8(a, k) == a \div (2 ^ k)


\* the literals of UInt::serialize and UInt::deserialize
Lit128 == Literal(<< 1, 2, 8 >>)
Lit16512 == Literal(<< 1, 6, 5, 1, 2 >>)
Lit2113664 == Literal(<< 2, 1, 1, 3, 6, 6, 4 >>)
Lit68721590400 == Literal(<< 6, 8, 7, 2, 1, 5, 9, 0, 4, 0, 0 >>)
Lit1152921573328437376 ==
  Literal(<< 1, 1, 5, 2, 9, 2, 1, 5, 7, 3, 3, 2, 8, 4, 3, 7, 3, 7, 6 >>)

\* `bytes[0] |= bits` on a slice
\* a serializer that leaves the length prefix out
or_first_absent(bytes, bits) == bytes
or_first(bytes, bits) == << Or8(bytes[1], bits) >> \o Tail(bytes)

\* Read::read_exact of n bytes from the slice r: the bytes and the rest
read_exact(r, n) ==
  IF Len(r) < n THEN Err("failed to fill whole buffer")
  ELSE Ok([buf |-> SubSeq(r, 1, n), rest |-> SubSeq(r, n + 1, Len(r))])

\* `a + b` on u64: with overflow checks the addition panics on overflow,
\* without them it wraps
checked_add(a, b) ==
  IF add_overflows(a, b)
  THEN {Err("attempt to add with overflow"), Ok(wrapping_add(a, b))}
  ELSE {Ok(wrapping_add(a, b))}

\* the rest of UInt::deserialize after the first byte: read `more` bytes,
\* build the number from them and add the offset of the length class
read_more(r, more, Build(_), offset) ==
  IF ~read_exact(r, more).ok THEN {read_exact(r, more)}
  ELSE {IF sum.ok THEN Ok([val |-> sum.val, rest |-> read_exact(r, more).val.rest]) ELSE sum :
          sum \in checked_add(Build(read_exact(r, more).val.buf), offset)}

\* impl PBType for UInt (std::io): the bytes handed to write_all, or the error
UInt_serialize(uint) ==
  IF U64Lt(uint, Lit128) THEN Ok(SubSeq(uint, 8, 8))
  ELSE IF U64Lt(uint, Lit16512)
  THEN Ok(or_first(SubSeq(wrapping_sub(uint, Lit128), 7, 8), 128))
  ELSE IF U64Lt(uint, Lit2113664)
  THEN Ok(or_first(SubSeq(wrapping_sub(uint, Lit16512), 6, 8), 192))
  ELSE IF U64Lt(uint, Lit68721590400)
  THEN Ok(or_first(SubSeq(wrapping_sub(uint, Lit2113664), 4, 8), 224))
  ELSE IF U64Lt(uint, Lit1152921573328437376)
  THEN Ok(or_first(SubSeq(wrapping_sub(uint, Lit68721590400), 1, 8), 240))
  ELSE Err("number too big (max 1152921573328437375)")

\* the outcomes of UInt::deserialize on the slice r: the number and what is
\* left of the slice, or the error
UInt_deserialize(r) ==
  IF ~read_exact(r, 1).ok THEN {read_exact(r, 1)}
  ELSE IF Shr8(r[1], 7) = 0 THEN {Ok([val |-> U64FromByte(r[1]), rest |-> Tail(r)])}
  ELSE IF And8(r[1], 64) = 0
  THEN read_more(Tail(r), 1,
         LAMBDA b : from_le_bytes(<< b[1], And8(r[1], 63), 0, 0, 0, 0, 0, 0 >>), Lit128)
  ELSE IF And8(r[1], 32) = 0
  THEN read_more(Tail(r), 2,
         LAMBDA b : from_le_bytes(<< b[2], b[1], And8(r[1], 31), 0, 0, 0, 0, 0 >>), Lit16512)
  ELSE IF And8(r[1], 16) = 0
  THEN read_more(Tail(r), 4,
         LAMBDA b : from_le_bytes(<< b[4], b[3], b[2], b[1], And8(r[1], 15), 0, 0, 0 >>),
         Lit2113664)
  ELSE read_more(Tail(r), 7,
         LAMBDA b : from_le_bytes(<< b[7], b[6], b[5], b[4], b[3], b[2], b[1],
                                     And8(r[1], 15) >>),
         Lit68721590400)

\* impl PBType for UInt (tokio)
tokio_UInt_serialize(uint) ==
  IF U64Lt(uint, Lit128) THEN Ok(SubSeq(uint, 1, 1))
  ELSE IF U64Lt(uint, Lit16512)
  THEN Ok(or_first(SubSeq(wrapping_sub(uint, Lit128), 7, 8), 128))
  ELSE IF U64Lt(uint, Lit2113664)
  THEN Ok(or_first(SubSeq(wrapping_sub(uint, Lit16512), 6, 8), 192))
  ELSE IF U64Lt(uint, Lit68721590400)
  THEN Ok(or_first(SubSeq(wrapping_sub(uint, Lit2113664), 4, 8), 224))
  ELSE IF U64Lt(uint, Lit1152921573328437376)
  THEN Ok(or_first(SubSeq(wrapping_sub(uint, Lit68721590400), 1, 8), 240))
  ELSE Err("number too big (max 1152921573328437376)")

tokio_UInt_deserialize(r) ==
  IF ~read_exact(r, 1).ok THEN {read_exact(r, 1)}
  ELSE IF Shr8(r[1], 7) = 0 THEN {Ok([val |-> U64FromByte(r[1]), rest |-> Tail(r)])}
  ELSE IF And8(r[1], 64) = 0
  THEN read_more(Tail(r), 1,
         LAMBDA b : from_be_bytes(<< b[1], And8(r[1], 63), 0, 0, 0, 0, 0, 0 >>), Lit128)
  ELSE IF And8(r[1], 32) = 0
  THEN read_more(Tail(r), 2,
         LAMBDA b : from_be_bytes(<< b[2], b[1], And8(r[1], 31), 0, 0, 0, 0, 0 >>), Lit16512)
  ELSE IF And8(r[1], 16) = 0
  THEN read_more(Tail(r), 4,
         LAMBDA b : from_be_bytes(<< b[4], b[3], b[2], b[1], And8(r[1], 15), 0, 0, 0 >>),
         Lit2113664)
  ELSE read_more(Tail(r), 7,
         LAMBDA b : from_be_bytes(<< b[7], b[6], b[5], b[4], b[3], b[2], b[1],
                                     And8(r[1], 15) >>),
         Lit68721590400)


(***************************************************************************)
(* A program that serializes a UInt into a Vec<u8> and deserializes it     *)
(* from the bytes written, as libtest::uint_correct and async_uint_correct *)
(* do, for numbers around the limits of the length classes.                *)
(***************************************************************************)
\* the pipeline's state, which the library never touches
schema_vars == << corpus, pc, layer, decls, definition, verdict, should_resolve_aliases,
                  dependencies, index, run, resolved_once >>
SchemaIdle ==
  /\ corpus = "none"
  /\ pc = "idle"
  /\ layer = 0
  /\ decls = << >>
  /\ definition = EmptyDefinition
  /\ verdict = None
  /\ should_resolve_aliases = FALSE
  /\ dependencies = {}
  /\ index = 0
  /\ run = 0
  /\ resolved_once = None

UIntLimits ==
  {U64FromByte(0), Lit128, Lit16512, Lit2113664, Lit68721590400, Lit1152921573328437376}
TEST_UINTS ==
  {wrapping_add(limit, U64FromByte(k)) : limit \in UIntLimits, k \in 0..Spread}
    \cup {wrapping_sub(limit, U64FromByte(k)) : limit \in UIntLimits, k \in 1..(Spread + 1)}
    \cup {U64FromByte(32), U64FromByte(64)}

UIntInit ==
  /\ SchemaIdle
  /\ IncludeIdle
  /\ ParseIdle
  /\ use_tokio \in BOOLEAN
  /\ subject \in TEST_UINTS
  /\ sink = << >>
  /\ out = None
  /\ wstep = "start"
  /\ peers = None
  /\ generated = None

\* what a call of serialize on the empty Vec leaves
Serialized(result) ==
  /\ out' = Some(result)
  /\ sink' = IF result.ok THEN sink \o result.val ELSE sink
  /\ wstep' = "written"
  /\ UNCHANGED << use_tokio, subject, peers, generated >>

\* UInt(*n).serialize(&mut v)
SerializeUInt ==
  /\ wstep = "start"
  /\ ~use_tokio
  /\ Serialized(UInt_serialize(subject))
  /\ UNCHANGED << schema_vars, include_vars, parse_vars >>

\* UInt(*n).serialize(&mut v).await
TokioSerializeUInt ==
  /\ wstep = "start"
  /\ use_tokio
  /\ Serialized(tokio_UInt_serialize(subject))
  /\ UNCHANGED << schema_vars, include_vars, parse_vars >>

\* UInt::deserialize(&mut &v[..]) after an unwrap() of the serialize
DeserializeUInt ==
  /\ wstep = "written"
  /\ ~use_tokio
  /\ Unwrap(out).ok
  /\ \E same \in UInt_deserialize(sink) : out' = Some(same)
  /\ wstep' = "read"
  /\ UNCHANGED << use_tokio, subject, sink, peers, generated >>
  /\ UNCHANGED << schema_vars, include_vars, parse_vars >>

\* UInt::deserialize(&mut &v[..]).await
TokioDeserializeUInt ==
  /\ wstep = "written"
  /\ use_tokio
  /\ Unwrap(out).ok
  /\ \E same \in tokio_UInt_deserialize(sink) : out' = Some(same)
  /\ wstep' = "read"
  /\ UNCHANGED << use_tokio, subject, sink, peers, generated >>
  /\ UNCHANGED << schema_vars, include_vars, parse_vars >>

UIntNext ==
  \/ SerializeUInt
  \/ TokioSerializeUInt
  \/ DeserializeUInt
  \/ TokioDeserializeUInt

UIntSpec == UIntInit /\ [][UIntNext]_vars


\* the largest number a UInt holds, and the numbers above it, are told apart by
InUIntRange(uint) == U64Lt(uint, Lit1152921573328437376)

\* C15: with the synchronous library every number of [0, 1152921573328437375]
\* serializes without an error, and deserializing the bytes written gives the
\* number back and consumes all of the bytes.
C15_UIntRoundTrip ==
  (~use_tokio /\ wstep \in {"written", "read"} /\ InUIntRange(subject)) =>
    /\ wstep = "written" => Unwrap(out).ok
    /\ wstep = "read" => out = Some(Ok([val |-> subject, rest |-> << >>]))

\* the largest number has been written in eight bytes and read back
C15_Witness ==
  /\ ~use_tokio
  /\ wstep = "read"
  /\ subject = wrapping_sub(Lit1152921573328437376, U64FromByte(1))
  /\ Len(sink) = 8
  /\ Unwrap(out).ok

\* the length of the encoding of a number in range, and the leading bits of
\* its first byte, as the length classes have them
EncodedLength(uint) ==
  IF U64Lt(uint, Lit128) THEN 1
  ELSE IF U64Lt(uint, Lit16512) THEN 2
  ELSE IF U64Lt(uint, Lit2113664) THEN 3
  ELSE IF U64Lt(uint, Lit68721590400) THEN 5
  ELSE 8
HasPrefix(byte, len) ==
  CASE len = 1 -> Shr8(byte, 7) = 0
    [] len = 2 -> Shr8(byte, 6) = 2
    [] len = 3 -> Shr8(byte, 5) = 6
    [] len = 5 -> Shr8(byte, 4) = 14
    [] len = 8 -> Shr8(byte, 4) = 15

\* C16: the synchronous serializer writes 1, 2, 3, 5 or 8 bytes for a number
\* below 128, 16512, 2113664, 68721590400 and 1152921573328437376, the first
\* byte starting with the bits 0, 10, 110, 1110 and 1111; from
\* 1152921573328437376 on it returns an error and writes nothing.
C16_UIntLengthClasses ==
  (~use_tokio /\ wstep = "written") =>
    IF InUIntRange(subject)
    THEN /\ Unwrap(out).ok
         /\ Len(sink) = EncodedLength(subject)
         /\ HasPrefix(sink[1], Len(sink))
    ELSE /\ ~Unwrap(out).ok
         /\ sink = << >>

\* 68721590400, the first number of the last class, has been written
C16_Witness ==
  /\ ~use_tokio
  /\ wstep = "written"
  /\ subject = Lit68721590400
  /\ sink = << 240, 0, 0, 0, 0, 0, 0, 0 >>

\* C17: with the tokio library every number in range serializes to the bytes
\* the synchronous serializer writes, and deserializing them gives the number
\* back and consumes all of the bytes.
C17_TokioUIntAgreesWithSync ==
  (use_tokio /\ wstep \in {"written", "read"} /\ InUIntRange(subject)) =>
    /\ wstep = "written" => out = Some(UInt_serialize(subject)) /\ sink = Unwrap(out).val
    /\ wstep = "read" => out = Some(Ok([val |-> subject, rest |-> << >>]))


(***************************************************************************)
(* The rest of the runtime library that generated code calls: u8 and Bytes *)
(* of punybuf_common and punybuf_common::tokio.                            *)
(***************************************************************************)
\* `len as u64` of a length below 65536
usize_as_u64(n) == << 0, 0, 0, 0, 0, 0, n \div 256, n % 256 >>
\* how many bytes r.take(len) hands out of `available` ones
take_limit(len, available) ==
  IF \E i \in 1..6 : len[i] # 0 THEN available
  ELSE Min({256 * len[7] + len[8], available})

\* PUNYBUF_MAX_BYTES_LENGTH as build.rs sets it when the environment does not
MAX_BYTES_LENGTH == Literal(<< 4, 2, 9, 4, 9, 6, 7, 2, 9, 6 >>)

\* UInt(..).serialize(w) and UInt::deserialize(r) of the library in use
lib_UInt_serialize(uint, tokio) ==
  IF tokio THEN tokio_UInt_serialize(uint) ELSE UInt_serialize(uint)
lib_UInt_deserialize(r, tokio) ==
  IF tokio THEN tokio_UInt_deserialize(r) ELSE UInt_deserialize(r)

\* impl PBType for u8, the same in both libraries
u8_serialize(byte) == Ok(<< byte >>)
u8_deserialize(r) ==
  IF read_exact(r, 1).ok THEN Ok([val |-> r[1], rest |-> Tail(r)]) ELSE read_exact(r, 1)

\* impl PBType for Bytes: the length as a UInt, then the bytes
Bytes_serialize(bytes, tokio) ==
  IF lib_UInt_serialize(usize_as_u64(Len(bytes)), tokio).ok
  THEN Ok(lib_UInt_serialize(usize_as_u64(Len(bytes)), tokio).val \o bytes)
  ELSE lib_UInt_serialize(usize_as_u64(Len(bytes)), tokio)
\* the length, the test against MAX_BYTES_LENGTH, then r.take(len).read_to_end,
\* which stops without an error where the reader ends
Bytes_taken(len, r) ==
  IF U64Lt(MAX_BYTES_LENGTH, len) THEN Err("Bytes length too large")
  ELSE Ok([val |-> SubSeq(r, 1, take_limit(len, Len(r))),
           rest |-> SubSeq(r, take_limit(len, Len(r)) + 1, Len(r))])
Bytes_deserialize(r, tokio) ==
  {IF len.ok THEN Bytes_taken(len.val.val, len.val.rest) ELSE len :
     len \in lib_UInt_deserialize(r, tokio)}

\* T::serialize and T::deserialize of the types that values of the model have
PB_serialize(type, value, tokio) ==
  IF type = "UInt" THEN lib_UInt_serialize(value, tokio) ELSE u8_serialize(value)
PB_deserialize(type, r, tokio) ==
  IF type = "UInt" THEN lib_UInt_deserialize(r, tokio) ELSE {u8_deserialize(r)}

(***************************************************************************)
(* rust_codegen: the serializer and the deserializer it writes for an      *)
(* enum, as the statements of each match arm; `await` is what maybe_await  *)
(* appended to the call.                                                   *)
(***************************************************************************)
maybe_await(tokio) == IF tokio THEN ".await" ELSE ""
gen_reference(refr) == refr.reference

\* one generated statement: its text with the holes, and what filled them
Stmt(code, name, type, byte, await) ==
  [code |-> code, name |-> name, type |-> type, byte |-> byte, await |-> await]

gen_serialize_variant(variant, tokio) ==
  [pattern |-> variant.name,
   body |->
     << Stmt("{}u8.serialize(w)", "", "", variant.discriminant, maybe_await(tokio)) >>
       \o (IF ~is_extension(variant) THEN << >>
           ELSE IF variant.value # None
           THEN << Stmt("let w = &mut bytes.0", "", "", 0, "") >>
           ELSE << Stmt("UInt(0).serialize(w)", "", "", 0, maybe_await(tokio)) >>)
       \o (IF variant.value = None THEN << >>
           ELSE << Stmt("value.serialize(w)", "", gen_reference(Unwrap(variant.value)), 0,
                        maybe_await(tokio)) >>)
       \o (IF is_extension(variant) /\ variant.value # None
           THEN << Stmt("bytes.serialize(real_w)", "", "", 0, maybe_await(tokio)) >>
           ELSE << >>)]
gen_serialize_variants(variants, tokio) ==
  MapSeq(LAMBDA variant : gen_serialize_variant(variant, tokio), variants)

gen_deserialize_variant(variant, tokio) ==
  [pattern |-> Some(variant.discriminant),
   body |->
     (IF is_extension(variant)
      THEN << Stmt("_ = UInt::deserialize(r)", "", "", 0, "") >> ELSE << >>)
       \o (IF variant.value # None
           THEN << Stmt("Self::{}({}::deserialize(r)?)", variant.name,
                        gen_reference(Unwrap(variant.value)), 0, maybe_await(tokio)) >>
           ELSE << Stmt("Self::{}", variant.name, "", 0, "") >>)]
\* the arm `_ =>`, from the last variant with `@default` if there is one
gen_deserialize_default(variants, tokio) ==
  [pattern |-> None,
   body |->
     IF \E i \in 1..Len(variants) : is_default(variants[i])
     THEN << Stmt("_ = Bytes::deserialize(r)?", "", "", 0, maybe_await(tokio)),
             Stmt("Self::{}",
                  variants[Max({i \in 1..Len(variants) : is_default(variants[i])})].name,
                  "", 0, "") >>
     ELSE << Stmt("Err(io::Error::other(..))?",
                  "Unknown enum discriminant; enum is not extensible", "", 0, "") >>]
gen_deserialize_variants(variants, tokio) ==
  Append(MapSeq(LAMBDA variant : gen_deserialize_variant(variant, tokio), variants),
         gen_deserialize_default(variants, tokio))

\* the statements that set the bits of the carrier: bit i for the flag at i
gen_serialize_flag_bit(flags, i) ==
  Stmt(IF flags[i].value # None THEN "if self.{}.is_some() { flags |= 1 << {i} }"
       ELSE "if self.{} { flags |= 1 << {i} }",
       flags[i].name, "", i - 1, "")
gen_serialize_flag_value(flag, tokio) ==
  Stmt("if let Some(ref v) = self.{} { v.serialize(w) }", flag.name,
       gen_reference(Unwrap(flag.value)), 0, maybe_await(tokio))
\* the first loop of gen_serialize_fields, for one field
gen_serialize_field(field, tokio) ==
  IF field.flags = None
  THEN << Stmt("self.{}.serialize(w)", field.name, gen_reference(field.value), 0,
               maybe_await(tokio)) >>
  ELSE << Stmt("let mut flags: {} = 0", "", gen_reference(field.value), 0, "") >>
         \o MapSeq(LAMBDA i : gen_serialize_flag_bit(Unwrap(field.flags), i),
                   << >> \o [i \in 1..Len(Unwrap(field.flags)) |-> i])
         \o << Stmt("flags.serialize(w)", "", gen_reference(field.value), 0,
                    maybe_await(tokio)) >>
         \o MapSeq(LAMBDA flag : gen_serialize_flag_value(flag, tokio),
                   SelectSeq(Unwrap(field.flags),
                             LAMBDA flag : flag.value # None /\ ~is_extension(flag)))
\* the second loop, for one field: the values of its `@extension` flags
gen_serialize_extensions(field, tokio) ==
  IF field.flags = None THEN << >>
  ELSE MapSeq(LAMBDA flag : gen_serialize_flag_value(flag, tokio),
              SelectSeq(Unwrap(field.flags),
                        LAMBDA flag : flag.value # None /\ is_extension(flag)))
has_extensions(fields) ==
  \E i \in 1..Len(fields) :
    /\ fields[i].flags # None
    /\ \E j \in 1..Len(Unwrap(fields[i].flags)) :
         /\ Unwrap(fields[i].flags)[j].value # None
         /\ is_extension(Unwrap(fields[i].flags)[j])
gen_serialize_fields(fields, extensible, tokio) ==
  ConcatAll(MapSeq(LAMBDA field : gen_serialize_field(field, tokio), fields), Len(fields))
    \o (IF extensible /\ has_extensions(fields)
        THEN << Stmt("let w = &mut bytes.0", "", "", 0, "") >>
               \o ConcatAll(MapSeq(LAMBDA field : gen_serialize_extensions(field, tokio),
                                   fields), Len(fields))
               \o << Stmt("bytes.serialize(real_w)", "", "", 0, maybe_await(tokio)) >>
        ELSE IF extensible
        THEN << Stmt("UInt(0).serialize(w)", "", "", 0, maybe_await(tokio)) >>
        ELSE << >>)
\* !attrs.contains_key("@sealed")
extensible_by(attrs) == ~contains_key(attrs, "@sealed")

(***************************************************************************)
(* What the generated code does when it runs against the library.          *)
(***************************************************************************)
\* the writers of a serializer: the caller's, and `bytes` once `w` names it
\* and the carrier `flags` of the flag group at hand
Writers(real_w, bytes, flags, err) ==
  [real_w |-> real_w, bytes |-> bytes, flags |-> flags, err |-> err]
write_all(ws, result) ==
  IF ~result.ok THEN [ws EXCEPT !.err = Some(result)]
  ELSE IF ws.bytes # None THEN [ws EXCEPT !.bytes = Some(Unwrap(@) \o result.val)]
  ELSE [ws EXCEPT !.real_w = @ \o result.val]

run_serialize_stmt(ws, stmt, self, tokio) ==
  IF ws.err # None THEN ws
  ELSE CASE stmt.code = "{}u8.serialize(w)" -> write_all(ws, u8_serialize(stmt.byte))
         [] stmt.code = "self.{}.serialize(w)" ->
              write_all(ws, PB_serialize(stmt.type, self[stmt.name], tokio))
         [] stmt.code = "let mut flags: {} = 0" -> [ws EXCEPT !.flags = 0]
         [] stmt.code = "if self.{}.is_some() { flags |= 1 << {i} }" ->
              IF self[stmt.name] # None
              THEN [ws EXCEPT !.flags = Or8(@, 2 ^ stmt.byte)] ELSE ws
         [] stmt.code = "if self.{} { flags |= 1 << {i} }" ->
              IF self[stmt.name] THEN [ws EXCEPT !.flags = Or8(@, 2 ^ stmt.byte)] ELSE ws
         [] stmt.code = "flags.serialize(w)" ->
              write_all(ws, PB_serialize(stmt.type, ws.flags, tokio))
         [] stmt.code = "if let Some(ref v) = self.{} { v.serialize(w) }" ->
              IF self[stmt.name] # None
              THEN write_all(ws, PB_serialize(stmt.type, Unwrap(self[stmt.name]), tokio))
              ELSE ws
         [] stmt.code = "let w = &mut bytes.0" -> [ws EXCEPT !.bytes = Some(<< >>)]
         [] stmt.code = "UInt(0).serialize(w)" ->
              write_all(ws, lib_UInt_serialize(U64FromByte(0), tokio))
         [] stmt.code = "value.serialize(w)" ->
              write_all(ws, PB_serialize(stmt.type, Unwrap(self.value), tokio))
         [] stmt.code = "bytes.serialize(real_w)" ->
              write_all([ws EXCEPT !.bytes = None],
                        Bytes_serialize(Unwrap(ws.bytes), tokio))

RECURSIVE run_serialize_body(_, _, _, _, _)
run_serialize_body(ws, body, i, self, tokio) ==
  IF i > Len(body) THEN ws
  ELSE run_serialize_body(run_serialize_stmt(ws, body[i], self, tokio), body, i + 1,
                          self, tokio)

\* `match self { .. } Ok(())`: what the call leaves in the writer, and its Result
run_serialize_enum(arms, self, tokio) ==
  run_serialize_body(Writers(<< >>, None, 0, None),
                     arms[CHOOSE i \in 1..Len(arms) : arms[i].pattern = self.variant].body,
                     1, self, tokio)
\* the body of the serialize of a struct, then `Ok(())`
run_serialize_struct(body, self, tokio) ==
  run_serialize_body(Writers(<< >>, None, 0, None), body, 1, self, tokio)

\* where `_ = UInt::deserialize(r);` leaves the reader: the call is not awaited,
\* so with tokio it reads nothing; a read that fails leaves a slice untouched or
\* empty, as the standard library in use has it
after_dropped_UInt(r, tokio) ==
  IF tokio THEN {Ok([val |-> "dropped", rest |-> r])}
  ELSE {IF uint.ok THEN Ok([val |-> "dropped", rest |-> uint.val.rest])
        ELSE IF uint.err = "attempt to add with overflow" THEN uint
        ELSE Ok([val |-> "dropped", rest |-> left]) :
          uint \in UInt_deserialize(r), left \in IF r = << >> THEN {<< >>} ELSE {<< >>, Tail(r)}}

RECURSIVE run_deserialize_body(_, _, _, _)
run_deserialize_body(body, i, r, tokio) ==
  CASE body[i].code = "_ = UInt::deserialize(r)" ->
         UNION {IF step.ok THEN run_deserialize_body(body, i + 1, step.val.rest, tokio)
                ELSE {step} : step \in after_dropped_UInt(r, tokio)}
    [] body[i].code = "_ = Bytes::deserialize(r)?" ->
         UNION {IF step.ok THEN run_deserialize_body(body, i + 1, step.val.rest, tokio)
                ELSE {step} : step \in Bytes_deserialize(r, tokio)}
    [] body[i].code = "Self::{}({}::deserialize(r)?)" ->
         {IF step.ok
          THEN Ok([val |-> [variant |-> body[i].name, value |-> Some(step.val.val)],
                   rest |-> step.val.rest])
          ELSE step : step \in PB_deserialize(body[i].type, r, tokio)}
    [] body[i].code = "Self::{}" ->
         {Ok([val |-> [variant |-> body[i].name, value |-> None], rest |-> r])}
    [] body[i].code = "Err(io::Error::other(..))?" -> {Err(body[i].name)}

\* `let discriminant = u8::deserialize(r)?; Ok(match discriminant { .. })`
matching_arm(arms, r) ==
  arms[Min({i \in 1..Len(arms) :
              arms[i].pattern \in {None, Some(u8_deserialize(r).val.val)}})].body
deserialize_enum(arms, r, tokio) ==
  IF ~u8_deserialize(r).ok THEN {u8_deserialize(r)}
  ELSE run_deserialize_body(matching_arm(arms, r), 1, u8_deserialize(r).val.rest,
                            tokio)


(***************************************************************************)
(* Two programs built from two versions of one enum: the writer's has the  *)
(* reader's variants and, after them, the variants added since.  Both      *)
(* definitions passed the validator; rust_codegen writes each side's code. *)
(***************************************************************************)
\* the schema `@builtin U8` and `E = [ body ]`, parsed and flattened
EnumSchema(body) ==
  flatten(<< parse_declaration(SBuiltin("U8"), 0),
             parse_declaration(STypeDecl("E", NoAttrs, << >>, SSquare(body)), 0) >>)
AcceptedEnums ==
  {EnumSchema(body).types[2] : body \in {b \in EnumBodies : validate(EnumSchema(b)).ok}}
\* the definition as it was when it had only its first k variants
Earlier(enum, k) == [enum EXCEPT !.variants = SubSeq(@, 1, k)]

\* the bytes that follow the enum in the reader's stream
Following == << 9 >>
\* the values an enum has: a variant and, if it carries one, its U8
EnumValues(enum) ==
  {[variant |-> enum.variants[i].name,
    value |-> IF enum.variants[i].value = None THEN None ELSE Some(200)] :
     i \in 1..Len(enum.variants)}

EnumWireInit ==
  /\ SchemaIdle
  /\ IncludeIdle
  /\ ParseIdle
  /\ use_tokio \in BOOLEAN
  /\ \E newer \in AcceptedEnums :
       /\ \E k \in 1..Len(newer.variants) :
            peers = Some([writer |-> newer, reader |-> Earlier(newer, k)])
       /\ subject \in EnumValues(newer)
  /\ sink = << >>
  /\ out = None
  /\ wstep = "start"
  /\ generated = None

\* whether a declaration is a command
IsCommand(decl) == "command_id" \in DOMAIN decl

\* the bodies gen_types writes into the impl PBType of a struct or an enum
gen_types_serialize(tp, tokio) ==
  IF tp.is = "Struct" THEN gen_serialize_fields(tp.fields, extensible_by(tp.attrs), tokio)
  ELSE gen_serialize_variants(tp.variants, tokio)
gen_types_deserialize(tp, tokio) ==
  IF tp.is = "Struct" THEN << >> ELSE gen_deserialize_variants(tp.variants, tokio)

\* gen_types for the type of each side
GenTypes ==
  /\ wstep = "start"
  /\ peers # None
  /\ ~IsCommand(Unwrap(peers).writer)
  /\ generated' =
       Some([serialize |-> gen_types_serialize(Unwrap(peers).writer, use_tokio),
             deserialize |-> gen_types_deserialize(Unwrap(peers).reader, use_tokio)])
  /\ wstep' = "generated"
  /\ UNCHANGED << use_tokio, subject, sink, out, peers >>
  /\ UNCHANGED << schema_vars, include_vars, parse_vars >>

\* the writer calls serialize on its value
SerializeEnum ==
  /\ wstep = "generated"
  /\ ~IsCommand(Unwrap(peers).writer)
  /\ Unwrap(peers).writer.is = "Enum"
  /\ LET ws == run_serialize_enum(Unwrap(generated).serialize, subject, use_tokio)
     IN /\ sink' = sink \o ws.real_w
        /\ out' = IF ws.err = None THEN Some(Ok("unit")) ELSE ws.err
  /\ wstep' = "written"
  /\ UNCHANGED << use_tokio, subject, peers, generated >>
  /\ UNCHANGED << schema_vars, include_vars, parse_vars >>

\* the reader calls deserialize on the bytes written and what follows them
DeserializeEnum ==
  /\ wstep = "written"
  /\ Unwrap(peers).reader.is = "Enum"
  /\ Unwrap(out).ok
  /\ \E result \in deserialize_enum(Unwrap(generated).deserialize, sink \o Following,
                                    use_tokio) :
       out' = Some(result)
  /\ wstep' = "read"
  /\ UNCHANGED << use_tokio, subject, sink, peers, generated >>
  /\ UNCHANGED << schema_vars, include_vars, parse_vars >>

EnumWireNext ==
  \/ GenTypes
  \/ SerializeEnum
  \/ DeserializeEnum

EnumWireSpec == EnumWireInit /\ [][EnumWireNext]_vars

\* the reader's definition lacks the variant the writer wrote
UnknownToReader ==
  /\ peers # None
  /\ ~IsCommand(Unwrap(peers).writer)
  /\ Unwrap(peers).writer.is = "Enum"
  /\ subject.variant \notin {Unwrap(peers).reader.variants[i].name :
                               i \in 1..Len(Unwrap(peers).reader.variants)}
\* the writer wrote an `@extension` variant of its definition
WroteExtension ==
  \E i \in 1..Len(Unwrap(peers).writer.variants) :
    /\ Unwrap(peers).writer.variants[i].name = subject.variant
    /\ is_extension(Unwrap(peers).writer.variants[i])
ReaderDefaults ==
  {Unwrap(peers).reader.variants[i].name :
     i \in {j \in 1..Len(Unwrap(peers).reader.variants) :
              is_default(Unwrap(peers).reader.variants[j])}}

\* C18: a reader whose enum has a @default variant reads a variant it does not
\* declare (an @extension variant of a newer definition, with or without a
\* value) as its @default variant, consuming the discriminant and one Bytes
\* envelope and nothing of what follows; a reader whose enum has no @default
\* variant returns an error for it.
C18_UnknownVariantReadsAsDefault ==
  (wstep = "read" /\ UnknownToReader) =>
    IF ReaderDefaults = {} THEN ~Unwrap(out).ok
    ELSE WroteExtension =>
           /\ Unwrap(out).ok
           /\ Unwrap(out).val.val.variant \in ReaderDefaults
           /\ Unwrap(out).val.val.value = None
           /\ Unwrap(out).val.rest = Following


(***************************************************************************)
(* A program built from a struct, or from a command with a struct          *)
(* argument, that the validator accepted: rust_codegen writes its          *)
(* serializer and the program serializes a value.                          *)
(***************************************************************************)
FlagKinds ==
  {[attrs |-> e, value |-> v] :
     e \in {NoAttrs, Attr("@extension", None)}, v \in {None, Some(SName("U8"))}}
\* `{ x: U8, flags: F [ .. ], y: U8 }` and `{ x: U8, y: U8 }`
StructBodies ==
  {<< SPlainField("x", SName("U8")), SPlainField("y", SName("U8")) >>}
    \cup UNION {{<< SPlainField("x", SName("U8")),
                    SField("flags", NoAttrs, SName("F"),
                           Some(<< >> \o [i \in 1..n |->
                                            SFlag(VariantNames[i], kinds[i].attrs,
                                                  kinds[i].value)])),
                    SPlainField("y", SName("U8")) >> :
                   kinds \in [1..n -> FlagKinds]} :
                n \in 1..MaxFlags}
StructDeclarations ==
  {STypeDecl("S", attrs, << >>, SCurly(body)) :
     attrs \in {NoAttrs, Attr("@sealed", None)}, body \in StructBodies}
    \cup {SCmdDecl("Cmd", attrs, Some(SCurly(body)), SName("U8"), None) :
            attrs \in {NoAttrs, Attr("@sealed", None)}, body \in StructBodies}
\* the schema `@builtin U8`, `@flags(8) F = U8` and the declaration
StructSchema(decl) ==
  flatten(<< parse_declaration(SBuiltin("U8"), 0),
             parse_declaration(STypeDecl("F", Attr("@flags", Some(<< 56 >>)), << >>,
                                         SName("U8")), 0),
             parse_declaration(decl, 0) >>)
AcceptedStructs ==
  {IF StructSchema(decl).commands = << >> THEN StructSchema(decl).types[3]
   ELSE StructSchema(decl).commands[1] :
     decl \in {d \in StructDeclarations : validate(StructSchema(d)).ok}}

\* a struct type or a command, which has its argument for a struct
HasFields(decl) == IF IsCommand(decl) THEN decl.argument.is = "Struct" ELSE decl.is = "Struct"
\* the fields gen_serialize_fields is called for
FieldsOf(decl) == IF IsCommand(decl) THEN decl.argument.fields ELSE decl.fields
\* the flags of the fields, in declaration order
FlagsOf(fields) ==
  ConcatAll(MapSeq(LAMBDA field : IF field.flags = None THEN << >> ELSE Unwrap(field.flags),
                   fields), Len(fields))
\* the value of the generated struct in which the flags `present` are set:
\* a u8 per field, a bool per value-less flag, an Option<u8> per flag with a value
StructValue(fields, present) ==
  [name \in {fields[i].name : i \in {j \in 1..Len(fields) : fields[j].flags = None}}
             \cup {FlagsOf(fields)[i].name : i \in 1..Len(FlagsOf(fields))} |->
     IF \E i \in 1..Len(fields) : fields[i].flags = None /\ fields[i].name = name
     THEN (CHOOSE i \in 1..Len(fields) : fields[i].name = name) + 6
     ELSE IF FlagsOf(fields)[CHOOSE i \in 1..Len(FlagsOf(fields)) :
                               FlagsOf(fields)[i].name = name].value = None
     THEN name \in present
     ELSE IF name \in present
     THEN Some(200 + CHOOSE i \in 1..Len(FlagsOf(fields)) : FlagsOf(fields)[i].name = name)
     ELSE None]

StructWireInit ==
  /\ SchemaIdle
  /\ IncludeIdle
  /\ ParseIdle
  /\ use_tokio \in BOOLEAN
  /\ \E decl \in AcceptedStructs :
       /\ peers = Some([writer |-> decl, reader |-> decl])
       /\ \E present \in SUBSET {FlagsOf(FieldsOf(decl))[i].name :
                                  i \in 1..Len(FlagsOf(FieldsOf(decl)))} :
            subject = StructValue(FieldsOf(decl), present)
  /\ sink = << >>
  /\ out = None
  /\ wstep = "start"
  /\ generated = None

\* gen_commands for the command of the writing side
GenCommands ==
  /\ wstep = "start"
  /\ peers # None
  /\ IsCommand(Unwrap(peers).writer)
  /\ generated' =
       Some([serialize |->
               IF Unwrap(peers).writer.argument.is = "Struct"
               THEN gen_serialize_fields(Unwrap(peers).writer.argument.fields,
                                         extensible_by(Unwrap(peers).writer.attrs),
                                         use_tokio)
               ELSE << >>,
             deserialize |-> << >>])
  /\ wstep' = "generated"
  /\ UNCHANGED << use_tokio, subject, sink, out, peers >>
  /\ UNCHANGED << schema_vars, include_vars, parse_vars >>

\* the program calls serialize (serialize_self for a command) on its value
SerializeStruct ==
  /\ wstep = "generated"
  /\ HasFields(Unwrap(peers).writer)
  /\ LET ws == run_serialize_struct(Unwrap(generated).serialize, subject, use_tokio)
     IN /\ sink' = sink \o ws.real_w
        /\ out' = IF ws.err = None THEN Some(Ok("unit")) ELSE ws.err
  /\ wstep' = "written"
  /\ UNCHANGED << use_tokio, subject, peers, generated >>
  /\ UNCHANGED << schema_vars, include_vars, parse_vars >>

StructWireNext ==
  \/ GenTypes
  \/ GenCommands
  \/ SerializeStruct

StructWireSpec == StructWireInit /\ [][StructWireNext]_vars

\* the flags that are set in the value, as bits of the carrier
CarrierOf(flags, self) ==
  LET Bit(i) == IF (IF flags[i].value = None THEN self[flags[i].name]
                    ELSE self[flags[i].name] # None)
                THEN 2 ^ (i - 1) ELSE 0
      Sum[i \in 0..Len(flags)] == IF i = 0 THEN 0 ELSE Sum[i - 1] + Bit(i)
  IN  Sum[Len(flags)]
\* the values of the flags that are set, of the extension flags or of the others
FlagValues(flags, self, extension) ==
  MapSeq(LAMBDA flag : Unwrap(self[flag.name]),
         SelectSeq(flags, LAMBDA flag : /\ flag.value # None
                                        /\ is_extension(flag) = extension
                                        /\ self[flag.name] # None))
\* the regular part of a struct on the wire
RegularFields(fields, self) ==
  ConcatAll(MapSeq(LAMBDA field :
                     IF field.flags = None THEN << self[field.name] >>
                     ELSE << CarrierOf(Unwrap(field.flags), self) >>
                            \o FlagValues(Unwrap(field.flags), self, FALSE),
                   fields), Len(fields))
Written == wstep = "written" /\ peers # None /\ Unwrap(out).ok
WrittenStruct == Written /\ HasFields(Unwrap(peers).writer)

\* C19: the serializer of a struct, or of a command with a struct argument,
\* that is @sealed or has no @extension flag writes the regular fields and then
\* the tail UInt(0), the byte 0; one that is not @sealed and has @extension
\* flags with values writes the regular fields and then one Bytes container
\* with the values of the extension flags that are set, in declaration order.
C19_StructTail ==
  WrittenStruct =>
    LET decl == Unwrap(peers).writer
        flags == FlagsOf(FieldsOf(decl))
        extension == FlagValues(flags, subject, TRUE)
    IN  /\ (contains_key(decl.attrs, "@sealed")
              \/ ~(\E i \in 1..Len(flags) : is_extension(flags[i]))) =>
             sink = RegularFields(FieldsOf(decl), subject) \o << 0 >>
        /\ (~contains_key(decl.attrs, "@sealed") /\ has_extensions(FieldsOf(decl))) =>
             sink = RegularFields(FieldsOf(decl), subject)
                      \o << Len(extension) >> \o extension

\* ---------------------------------------------------------------------------
\* files.rs: tokens_from_file and the FileIncludeHandler, with the lexer's
\* `include` keyword. A path is the sequence of its components; a file is the
\* sequence of its lines, each an include directive or a symbol.
\* ---------------------------------------------------------------------------

\* how many include directives a file holds at most
MaxIncludes == 2

FileNames == {"a.pbd", "b.pbd"}
MissingFile == "c.pbd"
IncludePaths == { << name >> : name \in FileNames \cup {MissingFile, "common"} }
Root == << "dir" >>

IncludeLine(path) == [is |-> "include", path |-> path]
SymbolLine(text) == [is |-> "symbol", text |-> text]

\* the files a directory can hold: some include directives, then the file's own symbol
Contents(name) ==
  { [i \in 1..Len(paths) |-> IncludeLine(paths[i])] \o << SymbolLine(name) >> :
      paths \in UNION { [1..n -> IncludePaths] : n \in 0..MaxIncludes } }
InRoot(names) == { Root \o << name >> : name \in names }
Disks ==
  { [entry |-> Root \o << "a.pbd" >>,
     files |-> [file \in InRoot(FileNames) |-> pair[file[Len(file)]]]] :
      pair \in { both \in [FileNames -> UNION { Contents(name) : name \in FileNames }] :
                   \A name \in FileNames : both[name] \in Contents(name) } }
    \cup { [entry |-> Root \o << MissingFile >>,
            files |-> [file \in InRoot(FileNames) |-> << SymbolLine(file[Len(file)]) >>]] }

\* directories with a subdirectory: dir/a.pbd includes sub/b.pbd, which
\* includes c.pbd under one of its spellings; c.pbd may include a file again
SubFiles == { << "sub", "b.pbd" >>, << "sub", "c.pbd" >> }
NestedDisks ==
  { [entry |-> Root \o << "a.pbd" >>,
     files |-> [file \in { Root \o << "a.pbd" >> } \cup { Root \o sub : sub \in SubFiles }
                          \cup beside |->
                  CASE file = Root \o << "a.pbd" >> ->
                         << IncludeLine(<< "sub", "b.pbd" >>), SymbolLine("a.pbd") >>
                    [] file = Root \o << "sub", "b.pbd" >> ->
                         << IncludeLine(spelling), SymbolLine("sub/b.pbd") >>
                    [] file = Root \o << "sub", "c.pbd" >> ->
                         again \o << SymbolLine("sub/c.pbd") >>
                    [] OTHER -> again \o << SymbolLine("c.pbd") >>]] :
      spelling \in { << "c.pbd" >>, << "sub", "c.pbd" >> },
      beside \in { {}, { Root \o << "c.pbd" >> } },
      again \in { << >>, << IncludeLine(<< "a.pbd" >>) >>,
                  << IncludeLine(<< "sub", "b.pbd" >>) >>, << IncludeLine(<< "b.pbd" >>) >> } }

\* Path::parent, Path::join and Path::to_str on the components
parent(file) == SubSeq(file, 1, Len(file) - 1)
join(root_path, include_path) == root_path \o include_path
to_str(file) == file

Span_impossible == [file_name |-> << >>, row |-> 0]
Span(file_name, row) == [file_name |-> file_name, row |-> row]

\* the baked-in common.pbd, which holds no include directive
COMMON == << SymbolLine("<common>") >>

\* fs::read_to_string
read_to_string(file) ==
  IF file \in DOMAIN disk.files
    THEN Ok(disk.files[file])
    ELSE Err("No such file or directory")

\* Lexer::new, and the state lex() starts from
Lexer_new(contents, file_name, include_span, include_path) ==
  [file_name |-> file_name, contents |-> contents, row |-> 1, tokens |-> << >>,
   includes_common |-> FALSE, include_span |-> include_span,
   include_path |-> include_path]

lexer_from_file(file, include_span, include_path) ==
  LET content == read_to_string(file)
  IN  IF content.ok
        THEN Ok(Lexer_new(content.val, to_str(file), include_span, include_path))
        ELSE content

\* IncludeDisallowed::handle_include under Lexer::lex: the lexing of a text
\* that may hold no include directive
RECURSIVE lex_include_disallowed(_, _)
lex_include_disallowed(contents, file_name) ==
  IF contents = << >> THEN Ok(<< >>)
  ELSE IF Head(contents).is = "include"
    THEN Err([content |-> "include is not allowed here",
              span |-> Span(file_name, 0), after_error |-> << >>])
    ELSE LET rest == lex_include_disallowed(Tail(contents), file_name)
         IN  IF rest.ok THEN Ok(<< Head(contents).text >> \o rest.val) ELSE rest

visited_nowhere(included, rp_string) == FALSE

\* the loop of handle_include over self.included
visited(included, rp_string) ==
  \E i \in 1..Len(included) : included[i].path = rp_string

first_visit(included, rp_string) ==
  included[CHOOSE i \in 1..Len(included) :
             /\ included[i].path = rp_string
             /\ \A j \in 1..(i - 1) : included[j].path # rp_string]

\* the warning handle_include prints for a path it has seen
warning_of(included, rp_string, include_span) ==
  [warning |-> << rp_string, "included multiple times - ignored" >>,
   first |-> IF first_visit(included, rp_string).span = Span_impossible
               THEN "is the entry point..."
               ELSE "included here first...",
   first_span |-> IF first_visit(included, rp_string).span = Span_impossible
                    THEN Span("<shell>", 0)
                    ELSE first_visit(included, rp_string).span,
   again_span |-> include_span]

IncludeInit ==
  /\ SchemaIdle
  /\ ParseIdle
  /\ use_tokio = FALSE
  /\ subject = None
  /\ sink = << >>
  /\ out = None
  /\ wstep = "idle"
  /\ peers = None
  /\ generated = None
  /\ disk \in Disks \cup NestedDisks
  /\ handler = None
  /\ lexers = << >>
  /\ stderr = << >>
  /\ trace = << >>
  /\ lexing = None

Running == lexers # << >>
Innermost == lexers[Len(lexers)]
AtLine == Innermost.contents[Innermost.row]
AtInclude == Running /\ Innermost.row <= Len(Innermost.contents) /\ AtLine.is = "include"
IncludeSpan == Span(Innermost.file_name, Innermost.row)

\* the innermost lexer goes on with the next line, its tokens and flag as given
Advance(tokens, includes_common) ==
  [lexers EXCEPT ![Len(lexers)] =
     [@ EXCEPT !.row = @ + 1, !.tokens = tokens, !.includes_common = includes_common]]

\* what an error does that every lex() and handle_include on the way passes up with `?`
RECURSIVE PassedUp(_, _)
PassedUp(error, outer) ==
  IF Len(outer) <= 1 THEN error
  ELSE PassedUp([error EXCEPT !.after_error =
                   Append(@, << outer[Len(outer)].include_path, "gets included here" >>)],
                SubSeq(outer, 1, Len(outer) - 1))

\* tokens_from_file up to the call of lex()
TokensFromFile ==
  /\ handler = None
  /\ lexing = None
  /\ LET file == disk.entry
         l == lexer_from_file(file, Span_impossible, to_str(file))
     IN  /\ handler' = Some([root_path |-> parent(file),
                             included |-> << [path |-> to_str(file),
                                              span |-> Span_impossible] >>])
         /\ trace' = Append(trace, [op |-> "read", path |-> to_str(file)])
         /\ IF l.ok
              THEN /\ lexers' = << l.val >>
                   /\ lexing' = None
              ELSE /\ lexers' = << >>
                   /\ lexing' = Some(l)
  /\ UNCHANGED << disk, stderr >>
  /\ UNCHANGED << schema_vars, wire_vars, parse_vars >>

\* Lexer::lex_internal on a line that is no include directive
LexSymbol ==
  /\ Running
  /\ Innermost.row <= Len(Innermost.contents)
  /\ AtLine.is = "symbol"
  /\ lexers' = Advance(Append(Innermost.tokens, AtLine.text), Innermost.includes_common)
  /\ UNCHANGED << disk, handler, stderr, trace, lexing >>
  /\ UNCHANGED << schema_vars, wire_vars, parse_vars >>

\* `include common`: the lexer's flag, then handle_include's first branch
IncludeCommon ==
  /\ AtInclude
  /\ AtLine.path = << "common" >>
  /\ LET a == Unwrap(handler)
         l == lex_include_disallowed(COMMON, "<common>")
     IN  IF visited(a.included, << "common" >>)
           THEN /\ lexers' = Advance(Innermost.tokens, TRUE)
                /\ trace' = Append(trace, [op |-> "include", path |-> << "common" >>,
                                           returned |-> Some(Ok(<< >>))])
                /\ UNCHANGED << handler, lexing >>
           ELSE /\ handler' = Some([a EXCEPT !.included =
                                      Append(@, [path |-> << "common" >>, span |-> IncludeSpan])])
                /\ trace' = Append(trace, [op |-> "include", path |-> << "common" >>,
                                           returned |-> Some(l)])
                /\ IF l.ok
                     THEN /\ lexers' = Advance(Innermost.tokens \o l.val, TRUE)
                          /\ UNCHANGED lexing
                     ELSE /\ lexers' = << >>
                          /\ lexing' = Some(Ok(Err(PassedUp(l.err, lexers))))
  /\ UNCHANGED << disk, stderr >>
  /\ UNCHANGED << schema_vars, wire_vars, parse_vars >>

\* handle_include on a path it has seen: a warning and no tokens
IncludeAgain ==
  /\ AtInclude
  /\ AtLine.path # << "common" >>
  /\ LET a == Unwrap(handler)
         rp_string == to_str(join(a.root_path, AtLine.path))
     IN  /\ visited(a.included, rp_string)
         /\ stderr' = Append(stderr, warning_of(a.included, rp_string, IncludeSpan))
         /\ trace' = Append(trace, [op |-> "include", path |-> rp_string,
                                    returned |-> Some(Ok(<< >>))])
         /\ lexers' = Advance(Innermost.tokens \o << >>, Innermost.includes_common)
  /\ UNCHANGED << disk, handler, lexing >>
  /\ UNCHANGED << schema_vars, wire_vars, parse_vars >>

\* handle_include on a new path, up to the call of the included file's lex()
IncludeNew ==
  /\ AtInclude
  /\ AtLine.path # << "common" >>
  /\ LET a == Unwrap(handler)
         real_path == join(a.root_path, AtLine.path)
         rp_string == to_str(real_path)
         l == lexer_from_file(real_path, IncludeSpan, AtLine.path)
         io_error == [content |-> << "I/O error while including", rp_string >>,
                      span |-> IncludeSpan, after_error |-> << >>]
     IN  /\ ~visited(a.included, rp_string)
         /\ handler' = Some([a EXCEPT !.included =
                               Append(@, [path |-> rp_string, span |-> IncludeSpan])])
         /\ IF l.ok
              THEN /\ lexers' = Append(lexers, l.val)
                   /\ trace' = trace \o << [op |-> "include", path |-> rp_string,
                                            returned |-> None],
                                           [op |-> "read", path |-> rp_string] >>
                   /\ UNCHANGED lexing
              ELSE /\ lexers' = << >>
                   /\ trace' = trace \o << [op |-> "include", path |-> rp_string,
                                            returned |-> Some(Err(io_error))],
                                           [op |-> "read", path |-> rp_string] >>
                   /\ lexing' = Some(Ok(Err(PassedUp(io_error, lexers))))
  /\ UNCHANGED << disk, stderr >>
  /\ UNCHANGED << schema_vars, wire_vars, parse_vars >>

\* the end of a file: lex() returns, to handle_include and the including
\* lexer's tokens.append, or to tokens_from_file
EndOfFile ==
  /\ Running
  /\ Innermost.row > Len(Innermost.contents)
  /\ IF Len(lexers) = 1
       THEN /\ lexers' = << >>
            /\ lexing' = Some(Ok(Ok([tokens |-> Innermost.tokens,
                                     includes_common |-> Innermost.includes_common])))
       ELSE /\ lexers' = [SubSeq(lexers, 1, Len(lexers) - 1) EXCEPT ![Len(lexers) - 1] =
                            [@ EXCEPT !.row = @ + 1,
                                      !.tokens = @ \o Innermost.tokens]]
            /\ UNCHANGED lexing
  /\ UNCHANGED << disk, handler, stderr, trace >>
  /\ UNCHANGED << schema_vars, wire_vars, parse_vars >>

IncludeNext ==
  \/ TokensFromFile
  \/ LexSymbol
  \/ IncludeCommon
  \/ IncludeAgain
  \/ IncludeNew
  \/ EndOfFile

IncludeSpec == IncludeInit /\ [][IncludeNext]_vars

\* the program is one thread that runs until tokens_from_file returns
IncludeFairSpec == IncludeSpec /\ WF_vars(IncludeNext)

\* what the trace and the warnings say about one path
Reads(path) ==
  { i \in 1..Len(trace) : trace[i].op = "read" /\ trace[i].path = path }
Encounters(path) ==
  { i \in 1..Len(trace) : trace[i].op = "include" /\ trace[i].path = path }
\* the encounters of a path that has been visited: every include of the entry
\* file, and every include of another path but the first
LaterEncounters(path) ==
  { i \in Encounters(path) :
      path = to_str(disk.entry) \/ \E j \in Encounters(path) : j < i }
WarningsAbout(path) ==
  { i \in 1..Len(stderr) : stderr[i].warning[1] = path }
NonCommonPaths == { trace[i].path : i \in 1..Len(trace) } \ { << "common" >> }
EveryReadSucceeded ==
  \A i \in 1..Len(trace) : trace[i].op = "read" => read_to_string(trace[i].path).ok
Occurrences(tokens, text) == { i \in 1..Len(tokens) : tokens[i] = text }

IncludedOnce ==
  /\ \A path \in NonCommonPaths :
       /\ Cardinality(Reads(path)) <= 1
       /\ \A i \in LaterEncounters(path) : trace[i].returned = Some(Ok(<< >>))
       /\ Cardinality(WarningsAbout(path)) = Cardinality(LaterEncounters(path))
  /\ (lexing # None /\ EveryReadSucceeded) =>
       /\ Unwrap(lexing).ok
       /\ Unwrap(lexing).val.ok
       /\ \A name \in FileNames :
            Cardinality(Occurrences(Unwrap(lexing).val.val.tokens, name)) <= 1

Cycle ==
  /\ disk.entry = Root \o << "a.pbd" >>
  /\ DOMAIN disk.files = InRoot(FileNames)
  /\ disk.files[Root \o << "a.pbd" >>] = << IncludeLine(<< "b.pbd" >>), SymbolLine("a.pbd") >>
  /\ disk.files[Root \o << "b.pbd" >>] = << IncludeLine(<< "a.pbd" >>), SymbolLine("b.pbd") >>

\* C20: whatever include directives one FileIncludeHandler handles, every
\* path other than common is read and lexed at most once, every encounter of a
\* visited path (the entry file's included) returns no tokens, with a warning
\* and no error, and the lexing ends: a.pbd including b.pbd including a.pbd
\* compiles, with a.pbd lexed once
C20_EachPathLexedOnce ==
  /\ []IncludedOnce
  /\ [](Cycle /\ lexing # None =>
          /\ Unwrap(lexing) = Ok(Ok([tokens |-> << "b.pbd", "a.pbd" >>,
                                     includes_common |-> FALSE]))
          /\ Cardinality(Reads(Root \o << "a.pbd" >>)) = 1)
  /\ <>(lexing # None)

C20_Witness ==
  /\ Cycle
  /\ lexing # None
  /\ Unwrap(lexing).ok
  /\ Len(stderr) = 1
  /\ stderr[1].first = "is the entry point..."
  /\ LaterEncounters(Root \o << "a.pbd" >>) # {}

CommonIncluded == Encounters(<< "common" >>) # {}
FirstCommon == CHOOSE i \in Encounters(<< "common" >>) :
                 \A j \in Encounters(<< "common" >>) : i <= j

\* C21: the tokens of the built-in schema are inserted at most once, every
\* later `include common` of any file returns no tokens, without a warning or
\* an error, and the flag tokens_from_file returns is true whenever the
\* built-in schema was included, by the entry file or by a file it includes
C21_CommonOnceAndFlagged ==
  /\ \A i \in Encounters(<< "common" >>) :
       i # FirstCommon => trace[i].returned = Some(Ok(<< >>))
  /\ WarningsAbout(<< "common" >>) = {}
  /\ (lexing # None /\ EveryReadSucceeded) =>
       /\ Unwrap(lexing).ok
       /\ Unwrap(lexing).val.ok
       /\ Cardinality(Occurrences(Unwrap(lexing).val.val.tokens, "<common>")) <= 1
       /\ CommonIncluded => Unwrap(lexing).val.val.includes_common

\* the include directive a visited-path entry was recorded for
DirectiveAt(span) == disk.files[span.file_name][span.row]
ReadPaths == { trace[i].path : i \in { j \in 1..Len(trace) : trace[j].op = "read" } }

\* C29: a path other than common is resolved against the directory of the
\* file that holds the include directive: the file read, and the path recorded
\* for the cycle detection, is that directory joined with the directive's path
C29_RelativeToIncludingFile ==
  handler # None =>
    \A i \in 2..Len(Unwrap(handler).included) :
      LET entry == Unwrap(handler).included[i]
      IN  entry.path # << "common" >> =>
            /\ entry.path = parent(entry.span.file_name) \o DirectiveAt(entry.span).path
            /\ entry.path \in ReadPaths

\* the variant the writer wrote, as the writer's definition declares it
WrittenVariant ==
  Unwrap(peers).writer.variants[
    CHOOSE i \in 1..Len(Unwrap(peers).writer.variants) :
      Unwrap(peers).writer.variants[i].name = subject.variant]
SameDefinition ==
  /\ peers # None
  /\ ~IsCommand(Unwrap(peers).writer)
  /\ Unwrap(peers).writer.is = "Enum"
  /\ Unwrap(peers).reader = Unwrap(peers).writer

\* C30: an @extension variant written by the generated serializer of an enum
\* (the u8 discriminant, then the value in a Bytes envelope, or UInt(0) for a
\* variant without a value) is read back by the generated deserializer of the
\* same definition as the same variant and value, the reader left directly
\* after the envelope, with the synchronous and with the tokio library
C30_KnownExtensionRoundTrip ==
  (wstep = "read" /\ SameDefinition /\ WroteExtension) =>
    /\ sink = << WrittenVariant.discriminant >>
                \o (IF subject.value = None THEN << 0 >>
                    ELSE << 1 >> \o subject.value)
    /\ Unwrap(out).ok
    /\ Unwrap(out).val.val = subject
    /\ Unwrap(out).val.rest = Following

\* ---------------------------------------------------------------------------
\* parser.rs: the loops of Parser::parse, parse_struct_decl, parse_flags,
\* parse_enum_decl and parse_value_enum_decl over the tokens of a body. The
\* tokens are attributes, docs, commas and items in the body's own syntax:
\* `a = U8` at top level, `a: U8` in a struct, `a?` among flags, `a,` in an
\* enum or a value-enum.
\* ---------------------------------------------------------------------------

\* how many attributes, docs, items and stray commas a body holds at most
MaxElements == 3

Bodies == {"top", "struct", "flags", "enum", "value_enum"}
ElementKinds == {"attribute", "docs", "item", "comma"}
Letters == << "a", "b", "c", "d", "e", "f" >>

TkAttribute(attr, val) == [is |-> "Attribute", attr |-> attr, val |-> val]
TkDocs(doc) == [is |-> "Docs", doc |-> doc]
TkSymbol(name) == [is |-> "Symbol", name |-> name]
Tk(is) == [is |-> is]

\* the tokens of the i-th element of a body
ElementTokens(body, element, i) ==
  CASE element = "attribute" -> << TkAttribute(Letters[i], None) >>
    [] element = "docs" -> << TkDocs(Letters[i]) >>
    [] element = "comma" -> << Tk("Comma") >>
    [] element = "item" /\ body = "top" ->
         << TkSymbol(Letters[i]), Tk("Equals"), TkSymbol("U8") >>
    [] element = "item" /\ body = "struct" ->
         << TkSymbol(Letters[i]), Tk("Colon"), TkSymbol("U8") >>
    [] element = "item" /\ body = "flags" -> << TkSymbol(Letters[i]), Tk("Question") >>
    [] OTHER -> << TkSymbol(Letters[i]), Tk("Comma") >>
RECURSIVE TokensFrom(_, _, _)
TokensFrom(body, elements, i) ==
  IF i > Len(elements) THEN << >>
  ELSE ElementTokens(body, elements[i], i) \o TokensFrom(body, elements, i + 1)

\* Peekable::peek; next() is peek and a step forward
peek(tokens, at) == IF at <= Len(tokens) THEN Some(tokens[at]) ELSE None
peeks(tokens, at, is) == at <= Len(tokens) /\ tokens[at].is = is

\* Parser::parse_reference on tokens without brackets
tk_parse_reference(tokens, at) ==
  IF at > Len(tokens) THEN Err("expected an identifier, got nothing")
  ELSE IF tokens[at].is # "Symbol" THEN Err("expected an identifier")
  ELSE Ok([refr |-> tokens[at].name, at |-> at + 1])

\* what follows an enum or value-enum variant: nothing or a comma
separated(tokens, at, found) ==
  IF at > Len(tokens) \/ tokens[at].is = "Comma"
    THEN Ok([found EXCEPT !.at = at + 1])
    ELSE Err("expected a comma to separate the variants")

\* the Symbol arm of each loop up to the push: the item's value and the
\* position after it; `at` is the position after the item's name
parse_item(body, tokens, at) ==
  CASE body = "top" ->
         IF at > Len(tokens) THEN Err("unexpected EOF")
         ELSE IF tokens[at].is = "Equals"
           THEN IF peeks(tokens, at + 1, "Symbol")
                  THEN tk_parse_reference(tokens, at + 1)
                  ELSE Err("expected one of (), {} or []")
           ELSE Err("unexpected token")
    [] body = "struct" ->
         IF at > Len(tokens) THEN Err("expected a colon, found nothing")
         ELSE IF tokens[at].is = "Colon" THEN tk_parse_reference(tokens, at + 1)
         ELSE Err("expected a colon after the field name")
    [] body = "flags" ->
         IF at > Len(tokens) THEN Err("expected a question mark, found nothing")
         ELSE IF tokens[at].is # "Question"
           THEN Err("expected a question mark after the optional field name")
         ELSE IF peeks(tokens, at + 1, "Colon")
           THEN tk_parse_reference(tokens, at + 2)
           ELSE Ok([refr |-> None, at |-> at + 1])
    [] body = "enum" ->
         LET value == IF peeks(tokens, at, "Colon")
                        THEN tk_parse_reference(tokens, at + 1)
                        ELSE Ok([refr |-> None, at |-> at])
         IN  IF value.ok THEN separated(tokens, value.val.at, value.val) ELSE value
    [] OTHER ->
         LET value == tk_parse_reference(tokens, at - 1)
         IN  IF value.ok THEN separated(tokens, value.val.at, value.val) ELSE value

\* a loop before its first iteration
Parser_new(body, elements) ==
  [body |-> body, elements |-> elements, tokens |-> TokensFrom(body, elements, 1),
   at |-> 1, next_doc |-> None, next_attrs |-> NoAttrs, items |-> << >>,
   iterations |-> 0, returned |-> None]

ParseInit ==
  /\ SchemaIdle
  /\ IncludeIdle
  /\ use_tokio = FALSE
  /\ subject = None
  /\ sink = << >>
  /\ out = None
  /\ wstep = "idle"
  /\ peers = None
  /\ generated = None
  /\ \E body \in Bodies :
       \E elements \in UNION { [1..n -> ElementKinds] : n \in 0..MaxElements } :
         parsing = Parser_new(body, elements)

\* `while let Some(tk) = peekable.next()`, which parse_value_enum_decl
\* writes `while let Some(tk) = peekable.peek()`
Looping(is) ==
  /\ parsing.returned = None
  /\ parsing.iterations <= Len(parsing.tokens) + 1
  /\ peeks(parsing.tokens, parsing.at, is)
AfterLoopHead == IF parsing.body = "value_enum" THEN parsing.at ELSE parsing.at + 1

\* the arm TokenData::Attribute
ParseAttribute ==
  /\ Looping("Attribute")
  /\ parsing' = [parsing EXCEPT
       !.next_attrs = (parsing.tokens[parsing.at].attr :> parsing.tokens[parsing.at].val)
                        @@ @,
       !.at = AfterLoopHead,
       !.iterations = @ + 1]
  /\ UNCHANGED << schema_vars, wire_vars, include_vars >>

\* the arm TokenData::Docs
ParseDocs ==
  /\ Looping("Docs")
  /\ parsing' =
       IF parsing.next_doc # None
         THEN [parsing EXCEPT !.returned = Some(Err("documentation defined twice")),
                              !.at = AfterLoopHead,
                              !.iterations = @ + 1]
         ELSE [parsing EXCEPT !.next_doc = Some(parsing.tokens[parsing.at].doc),
                              !.at = AfterLoopHead,
                              !.iterations = @ + 1]
  /\ UNCHANGED << schema_vars, wire_vars, include_vars >>

\* the arm TokenData::Symbol
ParseSymbol ==
  /\ Looping("Symbol")
  /\ LET item == parse_item(parsing.body, parsing.tokens, parsing.at + 1)
     IN  parsing' =
           IF item.ok
             THEN [parsing EXCEPT
                     !.items = Append(@, [name |-> parsing.tokens[parsing.at].name,
                                          attrs |-> parsing.next_attrs,
                                          doc |-> IF parsing.next_doc = None THEN ""
                                                  ELSE Unwrap(parsing.next_doc)]),
                     !.next_doc = None,
                     !.next_attrs = NoAttrs,
                     !.at = item.val.at,
                     !.iterations = @ + 1]
             ELSE [parsing EXCEPT !.returned = Some(item), !.iterations = @ + 1]
  /\ UNCHANGED << schema_vars, wire_vars, include_vars >>

\* the arm `_`
ParseUnexpected ==
  /\ parsing.returned = None
  /\ parsing.iterations <= Len(parsing.tokens) + 1
  /\ parsing.at <= Len(parsing.tokens)
  /\ parsing.tokens[parsing.at].is \notin {"Attribute", "Docs", "Symbol"}
  /\ parsing' = [parsing EXCEPT !.returned = Some(Err("unexpected token")),
                                !.at = AfterLoopHead,
                                !.iterations = @ + 1]
  /\ UNCHANGED << schema_vars, wire_vars, include_vars >>

\* the end of the tokens: the loop is left and the items are returned
ParseEnd ==
  /\ parsing.returned = None
  /\ parsing.at > Len(parsing.tokens)
  /\ parsing' = [parsing EXCEPT !.returned = Some(Ok(parsing.items))]
  /\ UNCHANGED << schema_vars, wire_vars, include_vars >>

ParseNext ==
  \/ ParseAttribute
  \/ ParseDocs
  \/ ParseSymbol
  \/ ParseUnexpected
  \/ ParseEnd

ParseSpec == ParseInit /\ [][ParseNext]_vars

\* what a body is to give: each item with the attributes and the docs written
\* since the item before it, an error for two docs before one item and for a
\* stray comma
RECURSIVE Attached(_, _, _, _, _)
Attached(elements, i, attrs, docs, items) ==
  IF i > Len(elements) THEN Ok(items)
  ELSE CASE elements[i] = "attribute" ->
              Attached(elements, i + 1, attrs \cup {Letters[i]}, docs, items)
         [] elements[i] = "docs" ->
              IF docs # {} THEN Err("docs twice")
              ELSE Attached(elements, i + 1, attrs, {Letters[i]}, items)
         [] elements[i] = "item" ->
              Attached(elements, i + 1, {}, {},
                       Append(items, [name |-> Letters[i], attrs |-> attrs, docs |-> docs]))
         [] OTHER -> Err("stray comma")
ItemsShown(items) ==
  [i \in 1..Len(items) |->
     [name |-> items[i].name, attrs |-> DOMAIN items[i].attrs,
      docs |-> IF items[i].doc = "" THEN {} ELSE {items[i].doc}]]

\* C28: in every body parser and at top level the attributes and the one
\* docs token before an item are attached to that item and then cleared,
\* only a second docs token before the same item is an error, and the
\* parser ends, with the items or an error, after at most one turn of its
\* loop for each token
C28_AttachedToNextItem ==
  /\ parsing.iterations <= Len(parsing.tokens)
  /\ parsing.returned # None =>
       LET expected == Attached(parsing.elements, 1, {}, {}, << >>)
       IN  /\ Unwrap(parsing.returned).ok = expected.ok
           /\ expected.ok => ItemsShown(Unwrap(parsing.returned).val) = expected.val

\* the layer closure of the first resolver has walked all the types
ClosureDone == run = 1 /\ pc \in {"track", "panic", "done"} /\ index >= Len(definition.types)

\* C24: in a definition the validator accepted, once the layer closure is
\* done, every global reference to something other than Void has a
\* declaration of its name at a layer not above its owner's, and
\* resolve_references does not panic
C24_EveryReferenceHasATarget ==
  (ClosureDone /\ pc # "done") =>
    /\ pc = "track"
    /\ \A e \in LayeredReferences(definition) :
         \E l \in DeclaredLayers(definition, e.ref.reference) : l <= e.layer

(***************************************************************************)
(* The layer closure (the while loop of resolve and track_changes).        *)
(***************************************************************************)
\* the definition that the resolver was given: the flattened declarations
Given == flatten(decls)

\* the types and commands of def as (name, layer, kind) triples
Declared(def) ==
  {Dependant(def.types[i].name, def.types[i].layer, "Type") : i \in 1..Len(def.types)}
    \cup {Dependant(def.commands[i].name, def.commands[i].layer, "Command") :
            i \in 1..Len(def.commands)}

\* the declarations that the closure added to the given definition
Synthesized == Declared(definition) \ Declared(Given)

\* C25: the layer closure keeps (name, layer) unique among the types and
\* among the commands: after every track_changes call and in the final
\* definition no two types and no two commands share a name and a layer, also
\* when a dependant depends on several types changed at one layer or is
\* reached along several dependency paths
C25_ClosureKeepsNameLayerUnique ==
  Accepted => ~DeclaredTwice(definition)

\* the closure is complete for a source that redeclares A and B at layer 1:
\* D, which depends on both (and on A through B as well), was synthesized at
\* layer 1
C25_Witness ==
  /\ ClosureDone
  /\ pc = "track"
  /\ {Dependant("A", 1, "Type"), Dependant("B", 1, "Type")} \subseteq Declared(Given)
  /\ Dependant("D", 1, "Type") \in Synthesized

\* the declaration of the definition that the triple d stands for
DeclarationOf(d) ==
  IF d.kind = "Type" THEN Unwrap(get_type_from_dependant(definition, d))
  ELSE Unwrap(get_command_from_dependant(definition, d))

\* the versions of the declaration d at lower layers
LowerVersions(d) ==
  {x \in Declared(definition) : x.name = d.name /\ x.kind = d.kind /\ x.layer < d.layer}

\* a and b differ in their layer only (and, for commands, their command id)
SameButLayer(a, b, kind) ==
  IF kind = "Type" THEN a = [b EXCEPT !.layer = a.layer]
  ELSE a = [b EXCEPT !.layer = a.layer, !.command_id = a.command_id]

\* every declaration that refers to another name has a version of its own at
\* or below each higher layer at which a type of that name is declared
ClosureComplete ==
  \A e \in LayeredReferences(definition) :
    e.ref.reference # e.owner =>
      \A L \in {definition.types[i].layer : i \in TypesNamed(definition, e.ref.reference)} :
        L > e.layer =>
          \E d \in Declared(definition) :
            d.name = e.owner /\ d.kind = e.kind /\ e.layer < d.layer /\ d.layer <= L

\* every synthesized declaration is a copy of the next lower version of its name
CopiesOfHighest ==
  \A d \in Synthesized :
    /\ LowerVersions(d) # {}
    /\ \A x \in LowerVersions(d) :
         x.layer = Max({y.layer : y \in LowerVersions(d)})
           => SameButLayer(DeclarationOf(x), DeclarationOf(d), d.kind)

ClonesRise ==
  (pc = "track" /\ pc' = "track") =>
    /\ \A j \in (Len(definition.types) + 1)..Len(definition'.types) :
         \E i \in 1..Len(definition.types) :
           /\ SameButLayer(definition.types[i], definition'.types[j], "Type")
           /\ definition.types[i].layer < definition'.types[j].layer
    /\ \A j \in (Len(definition.commands) + 1)..Len(definition'.commands) :
         \E i \in 1..Len(definition.commands) :
           /\ SameButLayer(definition.commands[i], definition'.commands[j], "Command")
           /\ definition.commands[i].layer < definition'.commands[j].layer

\* every name and every layer of the definition is one of the given definition
PairsFromGiven ==
  \A d \in Declared(definition) :
    /\ d.name \in {x.name : x \in Declared(Given)}
    /\ d.layer \in {x.layer : x \in Declared(Given)}

\* the while loop of resolve() has ended
LoopOver == pc # "track" \/ index >= Len(definition.types)

\* C23: the layer closure ends for every accepted definition, also when types
\* refer to each other in a cycle; every synthesized declaration lies at a
\* layer strictly above the one it was cloned from, and every name and every
\* layer of the definition is a name and a layer of the input
C23_ClosureTerminates ==
  /\ [][ClonesRise]_vars
  /\ [](Accepted => PairsFromGiven)
  /\ (pc = "track") ~> LoopOver

\* A was redeclared at layer 1 with a field of type D, which has a field of
\* type A; the loop has ended and D has a copy at layer 1
C23_Witness ==
  /\ ClosureDone
  /\ pc = "track"
  /\ \E i \in TypesAt(definition, "A", 1) :
       \E e \in LayeredReferences(definition) :
         e.owner = "A" /\ e.layer = 1 /\ e.ref.reference = "D"
  /\ Dependant("D", 1, "Type") \in Synthesized

(***************************************************************************)
(* The substitution of a `@resolve` alias at a call site.                  *)
(***************************************************************************)
\* the body of an alias with every reference to a generic parameter, at any
\* depth, replaced by the call-site argument of its position
RECURSIVE SubstitutedAtAnyDepth(_, _, _)
SubstitutedAtAnyDepth(body, params, args) ==
  IF ~body.is_global
  THEN args[CHOOSE k \in 1..Len(params) : params[k] = body.reference]
  ELSE [body EXCEPT !.generics =
          MapSeq(LAMBDA g : SubstitutedAtAnyDepth(g, params, args), body.generics)]

\* the references to a `@resolve` alias, with as many arguments as the alias
\* has parameters, that resolve_references is about to substitute
CallSites ==
  {e \in OwnedReferences(definition) :
     \E i \in AliasesSeen(definition, e.ref.reference, e.layer) :
       Len(e.ref.generics) = Len(definition.types[i].generic_args)}

\* C26: for an alias A<T1..Tn> = Body and a call site A<A1..An>, resolve_alias
\* returns Ak when Body is the parameter Tk, and otherwise a copy of Body in
\* which every non-global sub-reference, at any depth, is replaced by the
\* argument of its parameter and every global sub-reference is unchanged
C26_AliasBodySubstitutedAtAnyDepth ==
  (pc = "track" /\ should_resolve_aliases) =>
    \A e \in CallSites :
      \A i \in AliasesSeen(definition, e.ref.reference, e.layer) :
        resolve_alias(e.ref, definition.types[i])
          = Ok(SubstitutedAtAnyDepth(definition.types[i].alias,
                                     definition.types[i].generic_args, e.ref.generics))

(***************************************************************************)
(* The inline declarations of the parsed source and where flatten puts     *)
(* them.                                                                   *)
(***************************************************************************)
\* an inline declaration named name, written inside the declaration owner,
\* in a top-level declaration of the kind top
Inline(name, owner, top) == [name |-> name, owner |-> owner, top |-> top]

RECURSIVE InlinesOfReference(_, _, _)
RECURSIVE InlinesOfBody(_, _, _)
RECURSIVE InlinesOfFields(_, _, _)
InlinesOfReference(owner, top, refr) ==
  IF refr.is = "Reference"
  THEN UNION {InlinesOfReference(owner, top, refr.generics[k]) : k \in 1..Len(refr.generics)}
  ELSE {Inline(refr.symbol, owner, top)} \cup InlinesOfBody(refr.symbol, top, refr.decl)

InlinesOfFields(owner, top, fields) ==
  UNION {InlinesOfReference(owner, top, fields[k].value)
           \cup UNION {UNION {UNION {InlinesOfReference(owner, top, fields[k].flags[g][f].value[v]) :
                                       v \in 1..Len(fields[k].flags[g][f].value)} :
                                f \in 1..Len(fields[k].flags[g])} :
                         g \in 1..Len(fields[k].flags)}
         : k \in 1..Len(fields)}

InlinesOfBody(owner, top, decl) ==
  CASE decl.is = "StructDeclaration" -> InlinesOfFields(owner, top, decl.fields)
    [] decl.is = "EnumDeclaration" ->
         UNION {UNION {InlinesOfReference(owner, top, decl.variants[k].value[v]) :
                         v \in 1..Len(decl.variants[k].value)} :
                k \in 1..Len(decl.variants)}
    [] decl.is = "ValueEnumDeclaration" ->
         UNION {InlinesOfReference(owner, top, decl.variants[k].value) :
                k \in 1..Len(decl.variants)}

\* the inline declarations written in the top-level declaration decl
InlinesOfDeclaration(decl) ==
  CASE decl.value.is = "Flexible" -> InlinesOfBody(decl.symbol, "Flexible", decl.value.val)
    [] decl.value.is = "AliasDeclaration" ->
         InlinesOfReference(decl.symbol, "AliasDeclaration", decl.value.alias)
    [] decl.value.is = "CommandDeclaration" ->
         (CASE decl.value.argument.is = "None" -> {}
            [] decl.value.argument.is = "Reference" ->
                 InlinesOfReference(decl.symbol, "CommandDeclaration", decl.value.argument.ref)
            [] decl.value.argument.is = "Struct" ->
                 InlinesOfFields(decl.symbol, "CommandDeclaration", decl.value.argument.fields))
           \cup InlinesOfReference(decl.symbol, "CommandDeclaration", decl.value.ret)
           \cup UNION {InlinesOfBody(decl.symbol, "CommandDeclaration", decl.value.err[k]) :
                        k \in 1..Len(decl.value.err)}

InlineDeclarations == UNION {InlinesOfDeclaration(decls[k]) : k \in 1..Len(decls)}

\* the inline declaration d is a type of the definition, owned by the
\* declaration it was written in, which refers to it by a plain reference
HoistedWithOwner(d) ==
  /\ \E i \in TypesNamed(definition, d.name) :
       get_inline_owner(definition.types[i]) = Some(d.owner)
  /\ \E e \in OwnedReferences(definition) :
       e.owner = d.owner /\ e.ref.reference = d.name /\ e.ref.generics = << >>

\* type i of the definition was declared at top level
DeclaredAtTopLevel(i) ==
  \E k \in 1..Len(decls) :
    /\ decls[k].symbol = definition.types[i].name
    /\ decls[k].value.is \in {"Flexible", "AliasDeclaration"}

\* C27: flatten hoists every inline declaration, at any depth and in any
\* position (struct field, flag value, enum and value-enum variant, alias
\* target, command argument, return and error variant), to a type of the
\* definition with inline_owner = Some(the declaration immediately around
\* it) and leaves a plain reference in its place; a type has inline_owner =
\* None only if it was declared at top level
C27_InlineDeclarationsHoistedWithOwner ==
  pc = "validate" =>
    /\ \A d \in InlineDeclarations : HoistedWithOwner(d)
    /\ \A i \in 1..Len(definition.types) :
         get_inline_owner(definition.types[i]) = None => DeclaredAtTopLevel(i)
====
